---- MODULE Spec2Model ----
(***************************************************************************)
(* Deduplication engine of the internship board (scripts/deduplicate.py)   *)
(* and the pipeline that calls it (main.py).                               *)
(*                                                                         *)
(* A listing is a record [id, company, role, apply_url, date_added]: the   *)
(* JobListing fields the dedup stages read.  date_added is the day of the  *)
(* year 2026 (2026-01-01 = 1, 2026-01-15 = 15, 2026-02-01 = 32), which     *)
(* orders exactly as datetime.date does.  Strings are TLA+ strings; Chars  *)
(* gives the code points of the company and role strings (a Python str is  *)
(* a sequence of code points).                                             *)
(***************************************************************************)
EXTENDS Integers, Sequences, FiniteSets, TLC

(***************************************************************************)
(* Bounds and input pools                                                  *)
(***************************************************************************)

\* longest jobs.json listing array that is enumerated
MaxLen == 3

h1 == "h1"
h2 == "h2"
h3 == "h3"
h4 == "h4"

u1 == "https://example.com/1"
u2 == "https://example.com/2"
u3 == "https://example.com/3"

\* the printable ASCII characters U+0020 to U+005F and U+0061 to U+007E, in
\* order (a TLA+ string cannot hold U+0060)
AsciiToUnderscore ==
    << " ", "!", "\"", "#", "$", "%", "&", "'", "(", ")", "*", "+",
       ",", "-", ".", "/", "0", "1", "2", "3", "4", "5", "6", "7",
       "8", "9", ":", ";", "<", "=", ">", "?", "@", "A", "B", "C",
       "D", "E", "F", "G", "H", "I", "J", "K", "L", "M", "N", "O",
       "P", "Q", "R", "S", "T", "U", "V", "W", "X", "Y", "Z", "[",
       "\\", "]", "^", "_" >>

AsciiFromSmallA ==
    << "a", "b", "c", "d", "e", "f", "g", "h", "i", "j", "k", "l",
       "m", "n", "o", "p", "q", "r", "s", "t", "u", "v", "w", "x",
       "y", "z", "{", "|", "}", "~" >>

\* ord(ch) of one of these characters
Ord(ch) ==
    IF \E k \in 1..Len(AsciiToUnderscore) : AsciiToUnderscore[k] = ch
    THEN 31 + (CHOOSE k \in 1..Len(AsciiToUnderscore) :
                  AsciiToUnderscore[k] = ch)
    ELSE 96 + (CHOOSE k \in 1..Len(AsciiFromSmallA) : AsciiFromSmallA[k] = ch)

\* the code points of a sequence of printable ASCII characters
CodePoints(s) == [k \in 1..Len(s) |-> Ord(s[k])]

\* the characters of the company and role strings of the pools
AsciiChars ==
    ("Stripe Inc"  :> <<"S","t","r","i","p","e"," ","I","n","c">>) @@
    ("Stripe Inc." :> <<"S","t","r","i","p","e"," ","I","n","c",".">>) @@
    ("Stripe Ins." :> <<"S","t","r","i","p","e"," ","I","n","s",".">>) @@
    ("STRIPE INC"  :> <<"S","T","R","I","P","E"," ","I","N","C">>) @@
    ("SWE Intern"  :> <<"S","W","E"," ","I","n","t","e","r","n">>) @@
    ("swe  intern" :> <<"s","w","e"," "," ","i","n","t","e","r","n">>) @@
    ("Data Analyst" :> <<"D","a","t","a"," ","A","n","a","l","y","s","t">>) @@
    ("ML Intern Summer 2026 Atlanta" :>
        <<"M","L"," ","I","n","t","e","r","n"," ","S","u","m","m","e","r"," ",
          "2","0","2","6"," ","A","t","l","a","n","t","a">>) @@
    ("ML Intern Summer 2026 Atlanta GA" :>
        <<"M","L"," ","I","n","t","e","r","n"," ","S","u","m","m","e","r"," ",
          "2","0","2","6"," ","A","t","l","a","n","t","a"," ","G","A">>) @@
    ("SWE INTERN"  :> <<"S","W","E"," ","I","N","T","E","R","N">>) @@
    ("swe intern"  :> <<"s","w","e"," ","i","n","t","e","r","n">>) @@
    ("Intern SWE intern" :>
        <<"I","n","t","e","r","n"," ","S","W","E"," ","i","n","t","e","r","n">>) @@
    ("SWE" :> <<"S","W","E">>) @@
    ("   " :> <<" "," "," ">>) @@
    ("" :> <<>>)

\* titles with characters outside printable ASCII; the keys spell such a
\* character as Python does (\\t, \\xe9, \\u03a3), the values are the code
\* points of the string itself
UnicodeChars ==
    ("R\\xc9SUM\\xc9 Intern" :>
        <<82, 201, 83, 85, 77, 201, 32, 73, 110, 116, 101, 114, 110>>) @@
    ("r\\xe9sum\\xe9 intern" :>
        <<114, 233, 115, 117, 109, 233, 32, 105, 110, 116, 101, 114, 110>>) @@
    ("SWE\\tIntern" :>
        <<83, 87, 69, 9, 73, 110, 116, 101, 114, 110>>) @@
    ("SWE\\u2003Intern" :>
        <<83, 87, 69, 8195, 73, 110, 116, 101, 114, 110>>) @@
    ("\\u039f\\u0394\\u039f\\u03a3 Intern" :>
        <<927, 916, 927, 931, 32, 73, 110, 116, 101, 114, 110>>) @@
    ("\\u03bf\\u03b4\\u03bf\\u03c2 intern" :>
        <<959, 948, 959, 962, 32, 105, 110, 116, 101, 114, 110>>) @@
    ("\\u03bf\\u03b4\\u03bf\\u03c3 intern" :>
        <<959, 948, 959, 963, 32, 105, 110, 116, 101, 114, 110>>) @@
    ("\\u0130STANBUL Intern" :>
        <<304, 83, 84, 65, 78, 66, 85, 76, 32, 73, 110, 116, 101, 114, 110>>) @@
    ("i\\u0307stanbul intern" :>
        <<105, 775, 115, 116, 97, 110, 98, 117, 108, 32, 105, 110, 116, 101, 114, 110>>)

\* the code points of every company and role string of the pools
Chars ==
    [t \in DOMAIN AsciiChars |-> CodePoints(AsciiChars[t])] @@ UnicodeChars

(***************************************************************************)
(* str.lower() and str.split() of CPython 3.11 (Unicode 14.0.0), on code   *)
(* points.  The tables list what the interpreter's own character database  *)
(* answers for every code point from U+0000 to U+10FFFF.                   *)
(***************************************************************************)

\* <<first, last, step, delta>>: the code points first, first + step, ...,
\* last have the one-character lowercase c + delta; every other code point
\* but U+03A3 and U+0130 is its own lowercase
LowerRuns ==
    { <<65, 90, 1, 32>>, <<192, 214, 1, 32>>, <<216, 222, 1, 32>>,
      <<256, 302, 2, 1>>, <<306, 310, 2, 1>>, <<313, 327, 2, 1>>,
      <<330, 374, 2, 1>>, <<376, 376, 1, -121>>, <<377, 381, 2, 1>>,
      <<385, 385, 1, 210>>, <<386, 388, 2, 1>>, <<390, 390, 1, 206>>,
      <<391, 391, 1, 1>>, <<393, 394, 1, 205>>, <<395, 395, 1, 1>>,
      <<398, 398, 1, 79>>, <<399, 399, 1, 202>>, <<400, 400, 1, 203>>,
      <<401, 401, 1, 1>>, <<403, 403, 1, 205>>, <<404, 404, 1, 207>>,
      <<406, 406, 1, 211>>, <<407, 407, 1, 209>>, <<408, 408, 1, 1>>,
      <<412, 412, 1, 211>>, <<413, 413, 1, 213>>, <<415, 415, 1, 214>>,
      <<416, 420, 2, 1>>, <<422, 422, 1, 218>>, <<423, 423, 1, 1>>,
      <<425, 425, 1, 218>>, <<428, 428, 1, 1>>, <<430, 430, 1, 218>>,
      <<431, 431, 1, 1>>, <<433, 434, 1, 217>>, <<435, 437, 2, 1>>,
      <<439, 439, 1, 219>>, <<440, 440, 1, 1>>, <<444, 444, 1, 1>>,
      <<452, 452, 1, 2>>, <<453, 453, 1, 1>>, <<455, 455, 1, 2>>,
      <<456, 456, 1, 1>>, <<458, 458, 1, 2>>, <<459, 475, 2, 1>>,
      <<478, 494, 2, 1>>, <<497, 497, 1, 2>>, <<498, 500, 2, 1>>,
      <<502, 502, 1, -97>>, <<503, 503, 1, -56>>, <<504, 542, 2, 1>>,
      <<544, 544, 1, -130>>, <<546, 562, 2, 1>>, <<570, 570, 1, 10795>>,
      <<571, 571, 1, 1>>, <<573, 573, 1, -163>>, <<574, 574, 1, 10792>>,
      <<577, 577, 1, 1>>, <<579, 579, 1, -195>>, <<580, 580, 1, 69>>,
      <<581, 581, 1, 71>>, <<582, 590, 2, 1>>, <<880, 882, 2, 1>>,
      <<886, 886, 1, 1>>, <<895, 895, 1, 116>>, <<902, 902, 1, 38>>,
      <<904, 906, 1, 37>>, <<908, 908, 1, 64>>, <<910, 911, 1, 63>>,
      <<913, 929, 1, 32>>, <<932, 939, 1, 32>>, <<975, 975, 1, 8>>,
      <<984, 1006, 2, 1>>, <<1012, 1012, 1, -60>>, <<1015, 1015, 1, 1>>,
      <<1017, 1017, 1, -7>>, <<1018, 1018, 1, 1>>, <<1021, 1023, 1, -130>>,
      <<1024, 1039, 1, 80>>, <<1040, 1071, 1, 32>>, <<1120, 1152, 2, 1>>,
      <<1162, 1214, 2, 1>>, <<1216, 1216, 1, 15>>, <<1217, 1229, 2, 1>>,
      <<1232, 1326, 2, 1>>, <<1329, 1366, 1, 48>>, <<4256, 4293, 1, 7264>>,
      <<4295, 4295, 1, 7264>>, <<4301, 4301, 1, 7264>>, <<5024, 5103, 1, 38864>>,
      <<5104, 5109, 1, 8>>, <<7312, 7354, 1, -3008>>, <<7357, 7359, 1, -3008>>,
      <<7680, 7828, 2, 1>>, <<7838, 7838, 1, -7615>>, <<7840, 7934, 2, 1>>,
      <<7944, 7951, 1, -8>>, <<7960, 7965, 1, -8>>, <<7976, 7983, 1, -8>>,
      <<7992, 7999, 1, -8>>, <<8008, 8013, 1, -8>>, <<8025, 8031, 2, -8>>,
      <<8040, 8047, 1, -8>>, <<8072, 8079, 1, -8>>, <<8088, 8095, 1, -8>>,
      <<8104, 8111, 1, -8>>, <<8120, 8121, 1, -8>>, <<8122, 8123, 1, -74>>,
      <<8124, 8124, 1, -9>>, <<8136, 8139, 1, -86>>, <<8140, 8140, 1, -9>>,
      <<8152, 8153, 1, -8>>, <<8154, 8155, 1, -100>>, <<8168, 8169, 1, -8>>,
      <<8170, 8171, 1, -112>>, <<8172, 8172, 1, -7>>, <<8184, 8185, 1, -128>>,
      <<8186, 8187, 1, -126>>, <<8188, 8188, 1, -9>>, <<8486, 8486, 1, -7517>>,
      <<8490, 8490, 1, -8383>>, <<8491, 8491, 1, -8262>>, <<8498, 8498, 1, 28>>,
      <<8544, 8559, 1, 16>>, <<8579, 8579, 1, 1>>, <<9398, 9423, 1, 26>>,
      <<11264, 11311, 1, 48>>, <<11360, 11360, 1, 1>>, <<11362, 11362, 1, -10743>>,
      <<11363, 11363, 1, -3814>>, <<11364, 11364, 1, -10727>>, <<11367, 11371, 2, 1>>,
      <<11373, 11373, 1, -10780>>, <<11374, 11374, 1, -10749>>, <<11375, 11375, 1, -10783>>,
      <<11376, 11376, 1, -10782>>, <<11378, 11378, 1, 1>>, <<11381, 11381, 1, 1>>,
      <<11390, 11391, 1, -10815>>, <<11392, 11490, 2, 1>>, <<11499, 11501, 2, 1>>,
      <<11506, 11506, 1, 1>>, <<42560, 42604, 2, 1>>, <<42624, 42650, 2, 1>>,
      <<42786, 42798, 2, 1>>, <<42802, 42862, 2, 1>>, <<42873, 42875, 2, 1>>,
      <<42877, 42877, 1, -35332>>, <<42878, 42886, 2, 1>>, <<42891, 42891, 1, 1>>,
      <<42893, 42893, 1, -42280>>, <<42896, 42898, 2, 1>>, <<42902, 42920, 2, 1>>,
      <<42922, 42922, 1, -42308>>, <<42923, 42923, 1, -42319>>, <<42924, 42924, 1, -42315>>,
      <<42925, 42925, 1, -42305>>, <<42926, 42926, 1, -42308>>, <<42928, 42928, 1, -42258>>,
      <<42929, 42929, 1, -42282>>, <<42930, 42930, 1, -42261>>, <<42931, 42931, 1, 928>>,
      <<42932, 42946, 2, 1>>, <<42948, 42948, 1, -48>>, <<42949, 42949, 1, -42307>>,
      <<42950, 42950, 1, -35384>>, <<42951, 42953, 2, 1>>, <<42960, 42960, 1, 1>>,
      <<42966, 42968, 2, 1>>, <<42997, 42997, 1, 1>>, <<65313, 65338, 1, 32>>,
      <<66560, 66599, 1, 40>>, <<66736, 66771, 1, 40>>, <<66928, 66938, 1, 39>>,
      <<66940, 66954, 1, 39>>, <<66956, 66962, 1, 39>>, <<66964, 66965, 1, 39>>,
      <<68736, 68786, 1, 64>>, <<71840, 71871, 1, 32>>, <<93760, 93791, 1, 32>>,
      <<125184, 125217, 1, 34>> }

\* <<first, last>>: the code points str.lower() skips when it looks for the
\* letters around a capital sigma (Case_Ignorable)
CaseIgnorableRanges ==
    { <<39, 39>>, <<46, 46>>, <<58, 58>>, <<94, 94>>, <<96, 96>>,
      <<168, 168>>, <<173, 173>>, <<175, 175>>, <<180, 180>>, <<183, 184>>,
      <<688, 879>>, <<884, 885>>, <<890, 890>>, <<900, 901>>, <<903, 903>>,
      <<1155, 1161>>, <<1369, 1369>>, <<1375, 1375>>, <<1425, 1469>>, <<1471, 1471>>,
      <<1473, 1474>>, <<1476, 1477>>, <<1479, 1479>>, <<1524, 1524>>, <<1536, 1541>>,
      <<1552, 1562>>, <<1564, 1564>>, <<1600, 1600>>, <<1611, 1631>>, <<1648, 1648>>,
      <<1750, 1757>>, <<1759, 1768>>, <<1770, 1773>>, <<1807, 1807>>, <<1809, 1809>>,
      <<1840, 1866>>, <<1958, 1968>>, <<2027, 2037>>, <<2042, 2042>>, <<2045, 2045>>,
      <<2070, 2093>>, <<2137, 2139>>, <<2184, 2184>>, <<2192, 2193>>, <<2200, 2207>>,
      <<2249, 2306>>, <<2362, 2362>>, <<2364, 2364>>, <<2369, 2376>>, <<2381, 2381>>,
      <<2385, 2391>>, <<2402, 2403>>, <<2417, 2417>>, <<2433, 2433>>, <<2492, 2492>>,
      <<2497, 2500>>, <<2509, 2509>>, <<2530, 2531>>, <<2558, 2558>>, <<2561, 2562>>,
      <<2620, 2620>>, <<2625, 2626>>, <<2631, 2632>>, <<2635, 2637>>, <<2641, 2641>>,
      <<2672, 2673>>, <<2677, 2677>>, <<2689, 2690>>, <<2748, 2748>>, <<2753, 2757>>,
      <<2759, 2760>>, <<2765, 2765>>, <<2786, 2787>>, <<2810, 2815>>, <<2817, 2817>>,
      <<2876, 2876>>, <<2879, 2879>>, <<2881, 2884>>, <<2893, 2893>>, <<2901, 2902>>,
      <<2914, 2915>>, <<2946, 2946>>, <<3008, 3008>>, <<3021, 3021>>, <<3072, 3072>>,
      <<3076, 3076>>, <<3132, 3132>>, <<3134, 3136>>, <<3142, 3144>>, <<3146, 3149>>,
      <<3157, 3158>>, <<3170, 3171>>, <<3201, 3201>>, <<3260, 3260>>, <<3263, 3263>>,
      <<3270, 3270>>, <<3276, 3277>>, <<3298, 3299>>, <<3328, 3329>>, <<3387, 3388>>,
      <<3393, 3396>>, <<3405, 3405>>, <<3426, 3427>>, <<3457, 3457>>, <<3530, 3530>>,
      <<3538, 3540>>, <<3542, 3542>>, <<3633, 3633>>, <<3636, 3642>>, <<3654, 3662>>,
      <<3761, 3761>>, <<3764, 3772>>, <<3782, 3782>>, <<3784, 3789>>, <<3864, 3865>>,
      <<3893, 3893>>, <<3895, 3895>>, <<3897, 3897>>, <<3953, 3966>>, <<3968, 3972>>,
      <<3974, 3975>>, <<3981, 3991>>, <<3993, 4028>>, <<4038, 4038>>, <<4141, 4144>>,
      <<4146, 4151>>, <<4153, 4154>>, <<4157, 4158>>, <<4184, 4185>>, <<4190, 4192>>,
      <<4209, 4212>>, <<4226, 4226>>, <<4229, 4230>>, <<4237, 4237>>, <<4253, 4253>>,
      <<4348, 4348>>, <<4957, 4959>>, <<5906, 5908>>, <<5938, 5939>>, <<5970, 5971>>,
      <<6002, 6003>>, <<6068, 6069>>, <<6071, 6077>>, <<6086, 6086>>, <<6089, 6099>>,
      <<6103, 6103>>, <<6109, 6109>>, <<6155, 6159>>, <<6211, 6211>>, <<6277, 6278>>,
      <<6313, 6313>>, <<6432, 6434>>, <<6439, 6440>>, <<6450, 6450>>, <<6457, 6459>>,
      <<6679, 6680>>, <<6683, 6683>>, <<6742, 6742>>, <<6744, 6750>>, <<6752, 6752>>,
      <<6754, 6754>>, <<6757, 6764>>, <<6771, 6780>>, <<6783, 6783>>, <<6823, 6823>>,
      <<6832, 6862>>, <<6912, 6915>>, <<6964, 6964>>, <<6966, 6970>>, <<6972, 6972>>,
      <<6978, 6978>>, <<7019, 7027>>, <<7040, 7041>>, <<7074, 7077>>, <<7080, 7081>>,
      <<7083, 7085>>, <<7142, 7142>>, <<7144, 7145>>, <<7149, 7149>>, <<7151, 7153>>,
      <<7212, 7219>>, <<7222, 7223>>, <<7288, 7293>>, <<7376, 7378>>, <<7380, 7392>>,
      <<7394, 7400>>, <<7405, 7405>>, <<7412, 7412>>, <<7416, 7417>>, <<7468, 7530>>,
      <<7544, 7544>>, <<7579, 7679>>, <<8125, 8125>>, <<8127, 8129>>, <<8141, 8143>>,
      <<8157, 8159>>, <<8173, 8175>>, <<8189, 8190>>, <<8203, 8207>>, <<8216, 8217>>,
      <<8228, 8228>>, <<8231, 8231>>, <<8234, 8238>>, <<8288, 8292>>, <<8294, 8303>>,
      <<8305, 8305>>, <<8319, 8319>>, <<8336, 8348>>, <<8400, 8432>>, <<11388, 11389>>,
      <<11503, 11505>>, <<11631, 11631>>, <<11647, 11647>>, <<11744, 11775>>, <<11823, 11823>>,
      <<12293, 12293>>, <<12330, 12333>>, <<12337, 12341>>, <<12347, 12347>>, <<12441, 12446>>,
      <<12540, 12542>>, <<40981, 40981>>, <<42232, 42237>>, <<42508, 42508>>, <<42607, 42610>>,
      <<42612, 42621>>, <<42623, 42623>>, <<42652, 42655>>, <<42736, 42737>>, <<42752, 42785>>,
      <<42864, 42864>>, <<42888, 42890>>, <<42994, 42996>>, <<43000, 43001>>, <<43010, 43010>>,
      <<43014, 43014>>, <<43019, 43019>>, <<43045, 43046>>, <<43052, 43052>>, <<43204, 43205>>,
      <<43232, 43249>>, <<43263, 43263>>, <<43302, 43309>>, <<43335, 43345>>, <<43392, 43394>>,
      <<43443, 43443>>, <<43446, 43449>>, <<43452, 43453>>, <<43471, 43471>>, <<43493, 43494>>,
      <<43561, 43566>>, <<43569, 43570>>, <<43573, 43574>>, <<43587, 43587>>, <<43596, 43596>>,
      <<43632, 43632>>, <<43644, 43644>>, <<43696, 43696>>, <<43698, 43700>>, <<43703, 43704>>,
      <<43710, 43711>>, <<43713, 43713>>, <<43741, 43741>>, <<43756, 43757>>, <<43763, 43764>>,
      <<43766, 43766>>, <<43867, 43871>>, <<43881, 43883>>, <<44005, 44005>>, <<44008, 44008>>,
      <<44013, 44013>>, <<64286, 64286>>, <<64434, 64450>>, <<65024, 65039>>, <<65043, 65043>>,
      <<65056, 65071>>, <<65106, 65106>>, <<65109, 65109>>, <<65279, 65279>>, <<65287, 65287>>,
      <<65294, 65294>>, <<65306, 65306>>, <<65342, 65342>>, <<65344, 65344>>, <<65392, 65392>>,
      <<65438, 65439>>, <<65507, 65507>>, <<65529, 65531>>, <<66045, 66045>>, <<66272, 66272>>,
      <<66422, 66426>>, <<67456, 67461>>, <<67463, 67504>>, <<67506, 67514>>, <<68097, 68099>>,
      <<68101, 68102>>, <<68108, 68111>>, <<68152, 68154>>, <<68159, 68159>>, <<68325, 68326>>,
      <<68900, 68903>>, <<69291, 69292>>, <<69446, 69456>>, <<69506, 69509>>, <<69633, 69633>>,
      <<69688, 69702>>, <<69744, 69744>>, <<69747, 69748>>, <<69759, 69761>>, <<69811, 69814>>,
      <<69817, 69818>>, <<69821, 69821>>, <<69826, 69826>>, <<69837, 69837>>, <<69888, 69890>>,
      <<69927, 69931>>, <<69933, 69940>>, <<70003, 70003>>, <<70016, 70017>>, <<70070, 70078>>,
      <<70089, 70092>>, <<70095, 70095>>, <<70191, 70193>>, <<70196, 70196>>, <<70198, 70199>>,
      <<70206, 70206>>, <<70367, 70367>>, <<70371, 70378>>, <<70400, 70401>>, <<70459, 70460>>,
      <<70464, 70464>>, <<70502, 70508>>, <<70512, 70516>>, <<70712, 70719>>, <<70722, 70724>>,
      <<70726, 70726>>, <<70750, 70750>>, <<70835, 70840>>, <<70842, 70842>>, <<70847, 70848>>,
      <<70850, 70851>>, <<71090, 71093>>, <<71100, 71101>>, <<71103, 71104>>, <<71132, 71133>>,
      <<71219, 71226>>, <<71229, 71229>>, <<71231, 71232>>, <<71339, 71339>>, <<71341, 71341>>,
      <<71344, 71349>>, <<71351, 71351>>, <<71453, 71455>>, <<71458, 71461>>, <<71463, 71467>>,
      <<71727, 71735>>, <<71737, 71738>>, <<71995, 71996>>, <<71998, 71998>>, <<72003, 72003>>,
      <<72148, 72151>>, <<72154, 72155>>, <<72160, 72160>>, <<72193, 72202>>, <<72243, 72248>>,
      <<72251, 72254>>, <<72263, 72263>>, <<72273, 72278>>, <<72281, 72283>>, <<72330, 72342>>,
      <<72344, 72345>>, <<72752, 72758>>, <<72760, 72765>>, <<72767, 72767>>, <<72850, 72871>>,
      <<72874, 72880>>, <<72882, 72883>>, <<72885, 72886>>, <<73009, 73014>>, <<73018, 73018>>,
      <<73020, 73021>>, <<73023, 73029>>, <<73031, 73031>>, <<73104, 73105>>, <<73109, 73109>>,
      <<73111, 73111>>, <<73459, 73460>>, <<78896, 78904>>, <<92912, 92916>>, <<92976, 92982>>,
      <<92992, 92995>>, <<94031, 94031>>, <<94095, 94111>>, <<94176, 94177>>, <<94179, 94180>>,
      <<110576, 110579>>, <<110581, 110587>>, <<110589, 110590>>, <<113821, 113822>>, <<113824, 113827>>,
      <<118528, 118573>>, <<118576, 118598>>, <<119143, 119145>>, <<119155, 119170>>, <<119173, 119179>>,
      <<119210, 119213>>, <<119362, 119364>>, <<121344, 121398>>, <<121403, 121452>>, <<121461, 121461>>,
      <<121476, 121476>>, <<121499, 121503>>, <<121505, 121519>>, <<122880, 122886>>, <<122888, 122904>>,
      <<122907, 122913>>, <<122915, 122916>>, <<122918, 122922>>, <<123184, 123197>>, <<123566, 123566>>,
      <<123628, 123631>>, <<125136, 125142>>, <<125252, 125259>>, <<127995, 127999>>, <<917505, 917505>>,
      <<917536, 917631>>, <<917760, 917999>> }

\* <<first, last>>: the cased code points that are not skipped
CasedRanges ==
    { <<65, 90>>, <<97, 122>>, <<170, 170>>, <<181, 181>>, <<186, 186>>,
      <<192, 214>>, <<216, 246>>, <<248, 442>>, <<444, 447>>, <<452, 659>>,
      <<661, 687>>, <<880, 883>>, <<886, 887>>, <<891, 893>>, <<895, 895>>,
      <<902, 902>>, <<904, 906>>, <<908, 908>>, <<910, 929>>, <<931, 1013>>,
      <<1015, 1153>>, <<1162, 1327>>, <<1329, 1366>>, <<1376, 1416>>, <<4256, 4293>>,
      <<4295, 4295>>, <<4301, 4301>>, <<4304, 4346>>, <<4349, 4351>>, <<5024, 5109>>,
      <<5112, 5117>>, <<7296, 7304>>, <<7312, 7354>>, <<7357, 7359>>, <<7424, 7467>>,
      <<7531, 7543>>, <<7545, 7578>>, <<7680, 7957>>, <<7960, 7965>>, <<7968, 8005>>,
      <<8008, 8013>>, <<8016, 8023>>, <<8025, 8025>>, <<8027, 8027>>, <<8029, 8029>>,
      <<8031, 8061>>, <<8064, 8116>>, <<8118, 8124>>, <<8126, 8126>>, <<8130, 8132>>,
      <<8134, 8140>>, <<8144, 8147>>, <<8150, 8155>>, <<8160, 8172>>, <<8178, 8180>>,
      <<8182, 8188>>, <<8450, 8450>>, <<8455, 8455>>, <<8458, 8467>>, <<8469, 8469>>,
      <<8473, 8477>>, <<8484, 8484>>, <<8486, 8486>>, <<8488, 8488>>, <<8490, 8493>>,
      <<8495, 8500>>, <<8505, 8505>>, <<8508, 8511>>, <<8517, 8521>>, <<8526, 8526>>,
      <<8544, 8575>>, <<8579, 8580>>, <<9398, 9449>>, <<11264, 11387>>, <<11390, 11492>>,
      <<11499, 11502>>, <<11506, 11507>>, <<11520, 11557>>, <<11559, 11559>>, <<11565, 11565>>,
      <<42560, 42605>>, <<42624, 42651>>, <<42786, 42863>>, <<42865, 42887>>, <<42891, 42894>>,
      <<42896, 42954>>, <<42960, 42961>>, <<42963, 42963>>, <<42965, 42969>>, <<42997, 42998>>,
      <<43002, 43002>>, <<43824, 43866>>, <<43872, 43880>>, <<43888, 43967>>, <<64256, 64262>>,
      <<64275, 64279>>, <<65313, 65338>>, <<65345, 65370>>, <<66560, 66639>>, <<66736, 66771>>,
      <<66776, 66811>>, <<66928, 66938>>, <<66940, 66954>>, <<66956, 66962>>, <<66964, 66965>>,
      <<66967, 66977>>, <<66979, 66993>>, <<66995, 67001>>, <<67003, 67004>>, <<68736, 68786>>,
      <<68800, 68850>>, <<71840, 71903>>, <<93760, 93823>>, <<119808, 119892>>, <<119894, 119964>>,
      <<119966, 119967>>, <<119970, 119970>>, <<119973, 119974>>, <<119977, 119980>>, <<119982, 119993>>,
      <<119995, 119995>>, <<119997, 120003>>, <<120005, 120069>>, <<120071, 120074>>, <<120077, 120084>>,
      <<120086, 120092>>, <<120094, 120121>>, <<120123, 120126>>, <<120128, 120132>>, <<120134, 120134>>,
      <<120138, 120144>>, <<120146, 120485>>, <<120488, 120512>>, <<120514, 120538>>, <<120540, 120570>>,
      <<120572, 120596>>, <<120598, 120628>>, <<120630, 120654>>, <<120656, 120686>>, <<120688, 120712>>,
      <<120714, 120744>>, <<120746, 120770>>, <<120772, 120779>>, <<122624, 122633>>, <<122635, 122654>>,
      <<125184, 125251>>, <<127280, 127305>>, <<127312, 127337>>, <<127344, 127369>> }

\* <<first, last>>: the code points str.split() separates at
SpaceRanges ==
    { <<9, 13>>, <<28, 32>>, <<133, 133>>, <<160, 160>>, <<5760, 5760>>,
      <<8192, 8202>>, <<8232, 8233>>, <<8239, 8239>>, <<8287, 8287>>, <<12288, 12288>> }

InRanges(c, ranges) == \E r \in ranges : r[1] <= c /\ c <= r[2]

CaseIgnorable(c) == InRanges(c, CaseIgnorableRanges)

\* asked of code points that are not case-ignorable only
Cased(c) == InRanges(c, CasedRanges)

InRun(c, r) == r[1] <= c /\ c <= r[2] /\ (c - r[1]) % r[3] = 0

\* the lowercase of a code point other than U+03A3 and U+0130
LowerChar(c) ==
    IF c < 128
    THEN IF c \in 65..90 THEN c + 32 ELSE c
    ELSE IF \E r \in LowerRuns : InRun(c, r)
    THEN c + (CHOOSE r \in LowerRuns : InRun(c, r))[4]
    ELSE c

\* the capital sigma s[k] ends a word: the nearest code point before it
\* that is not case-ignorable is cased, and the nearest one after it, if
\* any, is not
FinalSigma(s, k) ==
    LET before == {j \in 1..(k - 1) : ~CaseIgnorable(s[j])}
        after == {j \in (k + 1)..Len(s) : ~CaseIgnorable(s[j])}
    IN  /\ before # {}
        /\ Cased(s[CHOOSE j \in before : \A m \in before : m <= j])
        /\ \/ after = {}
           \/ ~Cased(s[CHOOSE j \in after : \A m \in after : j <= m])

\* what s[k] becomes: U+03A3 becomes the final or the medial small sigma,
\* U+0130 becomes i followed by the combining dot above
LowerAt(s, k) ==
    IF s[k] = 931
    THEN IF FinalSigma(s, k) THEN <<962>> ELSE <<963>>
    ELSE IF s[k] = 304
    THEN <<105, 775>>
    ELSE <<LowerChar(s[k])>>

RECURSIVE LowerFrom(_, _)
LowerFrom(s, k) ==
    IF k > Len(s) THEN <<>> ELSE LowerAt(s, k) \o LowerFrom(s, k + 1)

\* s.lower() on a sequence of code points
Lower(s) == LowerFrom(s, 1)

\* str.isspace() of one code point
IsSpace(c) == InRanges(c, SpaceRanges)

\* s.split(): the maximal runs of non-whitespace characters, left to right.
\* cur is the token being read, toks the tokens already closed.
RECURSIVE SplitFrom(_, _, _, _)
SplitFrom(s, k, cur, toks) ==
    IF k > Len(s)
    THEN IF cur = <<>> THEN toks ELSE Append(toks, cur)
    ELSE IF IsSpace(s[k])
         THEN SplitFrom(s, k + 1, <<>>,
                        IF cur = <<>> THEN toks ELSE Append(toks, cur))
         ELSE SplitFrom(s, k + 1, Append(cur, s[k]), toks)

Split(s) == SplitFrom(s, 1, <<>>, <<>>)

\* set(title.lower().split())
TokenSet(title) ==
    LET toks == Split(Lower(Chars[title]))
    IN  {toks[k] : k \in 1..Len(toks)}

(***************************************************************************)
(* _compute_token_overlap: Jaccard similarity of the two token sets, kept  *)
(* as the exact fraction num/den (0/1 when both token sets are empty).     *)
(***************************************************************************)

\* two empty token sets count as equal: 1.0 instead of 0.0
compute_token_overlap_EmptyIsOne(title_a, title_b) ==
    LET tokens_a == TokenSet(title_a)
        tokens_b == TokenSet(title_b)
        union == tokens_a \cup tokens_b
        intersection == tokens_a \cap tokens_b
    IN  IF union = {}
        THEN [num |-> 1, den |-> 1]
        ELSE [num |-> Cardinality(intersection), den |-> Cardinality(union)]

compute_token_overlap(title_a, title_b) ==
    LET tokens_a == TokenSet(title_a)
        tokens_b == TokenSet(title_b)
        union == tokens_a \cup tokens_b
        intersection == tokens_a \cap tokens_b
    IN  IF tokens_a = {} /\ tokens_b = {}
        THEN [num |-> 0, den |-> 1]
        ELSE IF union = {}
        THEN [num |-> 0, den |-> 1]
        ELSE [num |-> Cardinality(intersection), den |-> Cardinality(union)]

(***************************************************************************)
(* thefuzz.fuzz.ratio: round(100 * 2*M / (len(a) + len(b))) where M is the *)
(* length of the longest common subsequence (normalised indel distance).   *)
(***************************************************************************)

Max(a, b) == IF a >= b THEN a ELSE b

\* One row of the longest-common-subsequence table: prev is the row of the
\* previous character of a (prev[c + 1] = LCS with the first c characters
\* of b), row the part of the new row already filled.
RECURSIVE LcsRow(_, _, _, _)
LcsRow(ch, b, prev, row) ==
    LET c == Len(row)
    IN  IF c > Len(b)
        THEN row
        ELSE LcsRow(ch, b, prev,
                    Append(row,
                           IF ch = b[c]
                           THEN prev[c] + 1
                           ELSE Max(prev[c + 1], row[c])))

RECURSIVE LcsRows(_, _, _, _)
LcsRows(a, b, k, prev) ==
    IF k > Len(a)
    THEN prev[Len(b) + 1]
    ELSE LcsRows(a, b, k + 1, LcsRow(a[k], b, prev, <<0>>))

LcsLen(a, b) == LcsRows(a, b, 1, [c \in 1..(Len(b) + 1) |-> 0])

\* Python round(): to the nearest integer, halves to the even one
RoundHalfEven(num, den) ==
    LET q == num \div den
        r == num % den
    IN  IF 2 * r > den THEN q + 1
        ELSE IF 2 * r < den THEN q
        ELSE IF q % 2 = 0 THEN q ELSE q + 1

fuzz_ratio(a, b) ==
    LET lensum == Len(a) + Len(b)
    IN  IF lensum = 0
        THEN 100
        ELSE RoundHalfEven(200 * LcsLen(a, b), lensum)

(***************************************************************************)
(* _dedup_by_content_hash and _dedup_by_url.  The dict `seen` keeps its    *)
(* keys in insertion order and seen[k] always has key k, so it is the      *)
(* sequence of its values: assigning to an existing key replaces the value *)
(* in place, assigning to a new key appends.                               *)
(***************************************************************************)

\* the lookup compares the key with the last inserted value only
SeenIndexById_LastOnly(seen, key) ==
    IF Len(seen) > 0 /\ seen[Len(seen)].id = key THEN Len(seen) ELSE 0

\* position in seen of the value stored under id `key`, 0 when absent
SeenIndexById(seen, key) ==
    IF \E k \in 1..Len(seen) : seen[k].id = key
    THEN CHOOSE k \in 1..Len(seen) : seen[k].id = key
    ELSE 0

\* the date test reversed: the older listing replaces the newer
HashKeepsNew_Reversed(listing, existing) ==
    listing.date_added < existing.date_added

\* line 103
HashKeepsNew(listing, existing) == listing.date_added > existing.date_added

\* `seen[key] = listing` adds a second entry instead of replacing the first
RECURSIVE HashLoop_AppendsNewer(_, _, _, _)
HashLoop_AppendsNewer(listings, n, seen, removed) ==
    IF n > Len(listings)
    THEN [out |-> seen, removed |-> removed]
    ELSE LET listing == listings[n]
             at == SeenIndexById(seen, listing.id)
         IN  IF at # 0
             THEN IF HashKeepsNew(listing, seen[at])
                  THEN HashLoop_AppendsNewer(listings, n + 1,
                                             Append(seen, listing), removed + 1)
                  ELSE HashLoop_AppendsNewer(listings, n + 1, seen, removed + 1)
             ELSE HashLoop_AppendsNewer(listings, n + 1,
                                        Append(seen, listing), removed)

\* the newer duplicate is stored as a new last entry, the older one deleted
RECURSIVE HashLoop_MovesNewer(_, _, _, _)
HashLoop_MovesNewer(listings, n, seen, removed) ==
    IF n > Len(listings)
    THEN [out |-> seen, removed |-> removed]
    ELSE LET listing == listings[n]
             at == SeenIndexById(seen, listing.id)
         IN  IF at # 0
             THEN IF HashKeepsNew(listing, seen[at])
                  THEN HashLoop_MovesNewer(
                           listings, n + 1,
                           Append(SubSeq(seen, 1, at - 1)
                                     \o SubSeq(seen, at + 1, Len(seen)),
                                  listing),
                           removed + 1)
                  ELSE HashLoop_MovesNewer(listings, n + 1, seen, removed + 1)
             ELSE HashLoop_MovesNewer(listings, n + 1,
                                      Append(seen, listing), removed)

RECURSIVE HashLoop(_, _, _, _)
HashLoop(listings, n, seen, removed) ==
    IF n > Len(listings)
    THEN [out |-> seen, removed |-> removed]
    ELSE LET listing == listings[n]
             at == SeenIndexById(seen, listing.id)
         IN  IF at # 0
             THEN IF HashKeepsNew(listing, seen[at])
                  THEN HashLoop(listings, n + 1,
                                [seen EXCEPT ![at] = listing], removed + 1)
                  ELSE HashLoop(listings, n + 1, seen, removed + 1)
             ELSE HashLoop(listings, n + 1, Append(seen, listing), removed)

dedup_by_content_hash(listings) == HashLoop(listings, 1, <<>>, 0)

\* the URL stage keyed by the id, as the hash stage is
UrlKey_ById(listing) == listing.id

\* line 141, str(listing.apply_url): the text of the already validated URL
UrlKey(listing) == listing.apply_url

SeenIndexByUrl(seen, key) ==
    IF \E k \in 1..Len(seen) : UrlKey(seen[k]) = key
    THEN CHOOSE k \in 1..Len(seen) : UrlKey(seen[k]) = key
    ELSE 0

\* ties replace the kept listing: `>=` where the code has `>`
UrlKeepsNew_OrSame(listing, existing) ==
    listing.date_added >= existing.date_added

\* line 144
UrlKeepsNew(listing, existing) == listing.date_added > existing.date_added

\* the kept listing of a URL group takes over the date of a newer duplicate
RECURSIVE UrlLoop_MergesDate(_, _, _, _)
UrlLoop_MergesDate(listings, n, seen, removed) ==
    IF n > Len(listings)
    THEN [out |-> seen, removed |-> removed]
    ELSE LET listing == listings[n]
             url_key == UrlKey(listing)
             at == SeenIndexByUrl(seen, url_key)
         IN  IF at # 0
             THEN IF UrlKeepsNew(listing, seen[at])
                  THEN UrlLoop_MergesDate(
                           listings, n + 1,
                           [seen EXCEPT ![at].date_added = listing.date_added],
                           removed + 1)
                  ELSE UrlLoop_MergesDate(listings, n + 1, seen, removed + 1)
             ELSE UrlLoop_MergesDate(listings, n + 1, Append(seen, listing),
                                     removed)

RECURSIVE UrlLoop(_, _, _, _)
UrlLoop(listings, n, seen, removed) ==
    IF n > Len(listings)
    THEN [out |-> seen, removed |-> removed]
    ELSE LET listing == listings[n]
             url_key == UrlKey(listing)
             at == SeenIndexByUrl(seen, url_key)
         IN  IF at # 0
             THEN IF UrlKeepsNew(listing, seen[at])
                  THEN UrlLoop(listings, n + 1,
                               [seen EXCEPT ![at] = listing], removed + 1)
                  ELSE UrlLoop(listings, n + 1, seen, removed + 1)
             ELSE UrlLoop(listings, n + 1, Append(seen, listing), removed)

dedup_by_url(listings) == UrlLoop(listings, 1, <<>>, 0)

(***************************************************************************)
(* _dedup_fuzzy.  Positions are 1-based here (Python's index k is k + 1).  *)
(* The loop state is [i, j, removed_indices, removed, compared]: j = 0     *)
(* stands at the head of `for i`, j > 0 at the head of `for j`; compared   *)
(* is the set of pairs <<i, j>> on which fuzz.ratio was called.            *)
(***************************************************************************)

CompanyThreshold == 90
OverlapThresholdNum == 8
OverlapThresholdDen == 10

\* the company names compared without .lower()
company_similarity_CaseSensitive(a, b) ==
    fuzz_ratio(Chars[a.company], Chars[b.company])

\* lines 232-234
company_similarity(a, b) ==
    fuzz_ratio(Lower(Chars[a.company]), Lower(Chars[b.company]))

\* the overlap test left out: every pair of roles passes
OverlapAtMostThreshold_Never(ov) == ov.den < 0

\* token_overlap <= 0.8, on the exact fraction
OverlapAtMostThreshold(ov) ==
    ov.num * OverlapThresholdDen <= OverlapThresholdNum * ov.den

\* the company names tested for equality instead of similarity
IsFuzzyDuplicate_ExactCompany(a, b) ==
    /\ a.company = b.company
    /\ ~OverlapAtMostThreshold(compute_token_overlap(a.role, b.role))

\* lines 232-245: the pair passes both `continue` tests
IsFuzzyDuplicate(a, b) ==
    /\ ~(company_similarity(a, b) <= CompanyThreshold)
    /\ ~OverlapAtMostThreshold(compute_token_overlap(a.role, b.role))

FuzzyStart ==
    [i |-> 1, j |-> 0, removed_indices |-> {}, removed |-> 0, compared |-> {}]

\* lines 217-222: the two `continue` tests on i
SkipI(listings, archived_hashes, st) ==
    \/ st.i \in st.removed_indices
    \/ listings[st.i].id \in archived_hashes

\* the archived test on j left out
SkipJ_NoArchive(listings, archived_hashes, st) ==
    st.j \in st.removed_indices

\* lines 225-229: the two `continue` tests on j
SkipJ(listings, archived_hashes, st) ==
    \/ st.j \in st.removed_indices
    \/ listings[st.j].id \in archived_hashes

\* ties keep i: `>` where the code has `>=`
JIsNewerOrSame_Strict(li, lj) == lj.date_added > li.date_added

\* the date test reversed: the older listing of the pair is kept
JIsNewerOrSame_Reversed(li, lj) == lj.date_added < li.date_added

\* line 248
JIsNewerOrSame(li, lj) == lj.date_added >= li.date_added

\* head of `for i` (lines 216-222)
FuzzyOuterStep(listings, archived_hashes, st) ==
    IF SkipI(listings, archived_hashes, st)
    THEN [st EXCEPT !.i = st.i + 1]
    ELSE [st EXCEPT !.j = st.i + 1]

\* removing j also ends the loop over j, as removing i does
FuzzyInnerStep_BreaksOnJ(listings, archived_hashes, st) ==
    IF st.j > Len(listings)
    THEN [st EXCEPT !.i = st.i + 1, !.j = 0]
    ELSE IF SkipJ(listings, archived_hashes, st)
    THEN [st EXCEPT !.j = st.j + 1]
    ELSE IF ~IsFuzzyDuplicate(listings[st.i], listings[st.j])
    THEN [st EXCEPT !.j = st.j + 1,
                    !.compared = st.compared \cup {<<st.i, st.j>>}]
    ELSE IF JIsNewerOrSame(listings[st.i], listings[st.j])
    THEN [st EXCEPT !.removed_indices = st.removed_indices \cup {st.i},
                    !.removed = st.removed + 1,
                    !.compared = st.compared \cup {<<st.i, st.j>>},
                    !.i = st.i + 1, !.j = 0]
    ELSE [st EXCEPT !.removed_indices = st.removed_indices \cup {st.j},
                    !.removed = st.removed + 1,
                    !.compared = st.compared \cup {<<st.i, st.j>>},
                    !.i = st.i + 1, !.j = 0]

\* one pass through the body of `for j` (lines 224-270)
FuzzyInnerStep(listings, archived_hashes, st) ==
    IF st.j > Len(listings)
    THEN [st EXCEPT !.i = st.i + 1, !.j = 0]
    ELSE IF SkipJ(listings, archived_hashes, st)
    THEN [st EXCEPT !.j = st.j + 1]
    ELSE IF ~IsFuzzyDuplicate(listings[st.i], listings[st.j])
    THEN [st EXCEPT !.j = st.j + 1,
                    !.compared = st.compared \cup {<<st.i, st.j>>}]
    ELSE IF JIsNewerOrSame(listings[st.i], listings[st.j])
    THEN [st EXCEPT !.removed_indices = st.removed_indices \cup {st.i},
                    !.removed = st.removed + 1,
                    !.compared = st.compared \cup {<<st.i, st.j>>},
                    !.i = st.i + 1, !.j = 0]
    ELSE [st EXCEPT !.removed_indices = st.removed_indices \cup {st.j},
                    !.removed = st.removed + 1,
                    !.compared = st.compared \cup {<<st.i, st.j>>},
                    !.j = st.j + 1]

FuzzyStep(listings, archived_hashes, st) ==
    IF st.j = 0
    THEN FuzzyOuterStep(listings, archived_hashes, st)
    ELSE FuzzyInnerStep(listings, archived_hashes, st)

RECURSIVE FuzzyLoop(_, _, _)
FuzzyLoop(listings, archived_hashes, st) ==
    IF st.i > Len(listings)
    THEN st
    ELSE FuzzyLoop(listings, archived_hashes,
                   FuzzyStep(listings, archived_hashes, st))

\* lines 272-274: the listings whose index is not in removed_indices
RECURSIVE KeepFrom(_, _, _)
KeepFrom(listings, removed_indices, idx) ==
    IF idx > Len(listings)
    THEN <<>>
    ELSE IF idx \in removed_indices
    THEN KeepFrom(listings, removed_indices, idx + 1)
    ELSE <<listings[idx]>> \o KeepFrom(listings, removed_indices, idx + 1)

\* the marked listings are counted but left in the result
FuzzyResult_KeepsAll(listings, removed_indices) == KeepFrom(listings, {}, 1)

FuzzyResult(listings, removed_indices) == KeepFrom(listings, removed_indices, 1)

dedup_fuzzy(listings, archived_hashes) ==
    IF Len(listings) <= 1
    THEN [out |-> listings, removed |-> 0]
    ELSE LET st == FuzzyLoop(listings, archived_hashes, FuzzyStart)
         IN  [out |-> FuzzyResult(listings, st.removed_indices),
              removed |-> st.removed]

(***************************************************************************)
(* Files.  A JSON file is [exists, raw]; raw is the parsed object, a       *)
(* record that has or lacks the key "listings" (<<>> is the object {}).    *)
(***************************************************************************)

Listing(id, company, role, apply_url, date_added) ==
    [id |-> id, company |-> company, role |-> role,
     apply_url |-> apply_url, date_added |-> date_added]

\* the listings jobs.json is filled from
ListingPool ==
    { Listing(h1, "Stripe Inc", "SWE Intern", u1, 1),
      Listing(h1, "Stripe Inc", "SWE Intern", u2, 32),
      Listing(h2, "Stripe Inc.", "SWE Intern", u3, 15),
      Listing(h3, "STRIPE INC", "swe  intern", u1, 1),
      Listing(h3, "Stripe Ins.", "SWE Intern", u2, 15),
      Listing(h3, "Stripe Inc", "Data Analyst", u3, 32),
      Listing(h4, "Stripe Inc", "ML Intern Summer 2026 Atlanta", u1, 15),
      Listing(h1, "Stripe Inc.", "ML Intern Summer 2026 Atlanta GA", u3, 1) }

SeqsUpTo(S, n) == UNION {[1..m -> S] : m \in 0..n}

MissingFile == [exists |-> FALSE, raw |-> <<>>]
EmptyObjectFile == [exists |-> TRUE, raw |-> <<>>]

\* an object that has other keys and lacks "listings"
NoListingsKeyFile ==
    [exists |-> TRUE, raw |-> [last_updated |-> "2026-02-20T12:00:00"]]

JobsFiles ==
    {MissingFile, EmptyObjectFile, NoListingsKeyFile}
    \cup {[exists |-> TRUE, raw |-> [listings |-> ls]] :
             ls \in SeqsUpTo(ListingPool, MaxLen)}

\* archived.json entries are objects that have or lack the key "id"
ArchivedFiles ==
    { MissingFile,
      EmptyObjectFile,
      NoListingsKeyFile,
      [exists |-> TRUE, raw |-> [listings |-> <<>>]],
      [exists |-> TRUE, raw |-> [listings |-> <<[id |-> h2]>>]],
      [exists |-> TRUE,
       raw |-> [listings |-> <<[id |-> h1], [company |-> "Stripe"], [id |-> h4]>>]] }

\* `not raw or not raw.get("listings")`
NoListings(raw) ==
    \/ DOMAIN raw = {}
    \/ "listings" \notin DOMAIN raw
    \/ Len(raw.listings) = 0

\* _load_database: the listings of the JobsDatabase it returns
load_database(file) ==
    IF ~file.exists
    THEN <<>>
    ELSE IF NoListings(file.raw)
    THEN <<>>
    ELSE file.raw.listings

\* the file accesses _load_database makes
load_database_io(file) ==
    IF ~file.exists
    THEN <<"exists jobs.json">>
    ELSE <<"exists jobs.json", "read jobs.json">>

\* _load_archived_hashes
load_archived_hashes(file) ==
    IF ~file.exists
    THEN {}
    ELSE IF NoListings(file.raw)
    THEN {}
    ELSE {file.raw.listings[k].id :
             k \in {n \in 1..Len(file.raw.listings) :
                       "id" \in DOMAIN file.raw.listings[n]}}

load_archived_hashes_io(file) ==
    IF ~file.exists
    THEN <<"exists archived.json">>
    ELSE <<"exists archived.json", "read archived.json">>

\* _save_database: what jobs.json holds afterwards (last_updated and
\* total_open, which no stage reads, are left out)
save_database(db_listings) == [exists |-> TRUE, raw |-> [listings |-> db_listings]]

(***************************************************************************)
(* deduplicate_all, one action per statement group.                        *)
(***************************************************************************)

VARIABLES
    jobsFile,         \* data/jobs.json
    archivedFile,     \* data/archived.json
    pc,               \* the statement deduplicate_all executes next
    db,               \* db.listings
    archived_hashes,
    listings,
    hash_removed,
    url_removed,
    fuzzy_removed,
    fz,               \* the loop state of _dedup_fuzzy
    logline,          \* the arguments of the "Deduplication complete" log call
    ret,              \* the returned value, by component
    io,               \* the file accesses made so far, in order
    stages            \* the stage functions called so far, in order

\* a call of _compute_token_overlap on its own
VARIABLES
    title_a,
    title_b,
    overlap           \* <<>> before the call, then <<the returned fraction>>

\* run_full_pipeline of main.py
VARIABLES
    step_index,       \* position in `steps` of the step run next, from 1
    attempted,        \* the step functions called so far, in order
    outcomes,         \* what each called function did: returned or raised
    step_log,         \* the "Completed step" / "Step failed" records
    succeeded,
    failed,
    pipeline_pc,
    running,          \* the steps whose function has been called and not ended
    awaited,          \* the step _run_step is inside of, 0 at the loop head
    store,            \* who wrote the content jobs.json has now, "" at the start
    step_io,          \* per step: how far it got with jobs.json
    archived_store,   \* who wrote the content archived.json has now
    outside_io        \* per writer outside the run: how far it got

\* check_all_links of scripts/check_links.py, run after run
VARIABLES
    link_db,          \* data/jobs.json as the link checker reads it: [id, status]
    health,           \* data/link_health.json: id -> consecutive_failures
    link_pc,          \* "idle" between runs, "gather" inside asyncio.gather
    tasks,            \* one per open listing: [listing_id, pos]
    task_state,       \* per task: "waiting", "in_flight" or "done"
    results,          \* per task: what _check_single_link returned
    semaphore,        \* the value of asyncio.Semaphore(MAX_CONCURRENT)
    waiters,          \* the semaphore's queue: [task, woken], first come first
    requests,         \* per listing: HEAD requests sent in this run
    last_result,      \* per listing: result_type of its check in the last run
    link_stats,       \* the stats dict of the last run
    runs,             \* runs completed
    runs_allowed,     \* runs the scenario makes
    server            \* the answers the checked sites may give

dedupVars == <<jobsFile, archivedFile, pc, db, archived_hashes, listings,
               hash_removed, url_removed, fuzzy_removed, fz, logline, ret, io,
               stages>>
scorerVars == <<title_a, title_b, overlap>>
pipelineVars == <<step_index, attempted, outcomes, step_log, succeeded, failed,
                  pipeline_pc, running, awaited, store, step_io,
                  archived_store, outside_io>>

linkVars == <<link_db, health, link_pc, tasks, task_state, results, semaphore,
              waiters, requests, last_result, link_stats, runs, runs_allowed, server>>

\* what deduplicate_all does not touch
otherVars == <<scorerVars, pipelineVars, linkVars>>
\* what _compute_token_overlap does not touch
notScorerVars == <<dedupVars, pipelineVars, linkVars>>
\* what run_full_pipeline does not touch in this model
notPipelineVars == <<dedupVars, scorerVars, linkVars>>
\* what check_all_links does not touch
notLinkVars == <<dedupVars, scorerVars, pipelineVars>>

vars == <<dedupVars, otherVars>>

\* no call of _compute_token_overlap on its own is under way
ScorerIdle ==
    /\ title_a = ""
    /\ title_b = ""
    /\ overlap = <<>>

\* what a step that has not opened jobs.json has done with it
NoAccess == [phase |-> "none", stale |-> FALSE]

\* what a function outside the run that is not at work has done with the files
NotAtWork == [phase |-> "none"]

\* how many functions outside the run are at work on jobs.json at a time
MaxOutside == 2

\* the functions that load and save jobs.json in a process other than the
\* one of this run_full_pipeline: main.py --clean, the issue-processing
\* script, and the step functions themselves, which main.py
\* --check-links-only and --discover-only, the `__main__` block of each
\* script and another run_full_pipeline call
OutsideWriters ==
    {"run_clean", "process_issues", "discover_all", "validate_all",
     "deduplicate_all", "check_all_links", "archive_stale"}

\* no step function has been called
NoStepCalled ==
    /\ running = {}
    /\ awaited = 0
    /\ store = ""
    /\ step_io = [s \in 1..6 |-> NoAccess]
    /\ archived_store = ""
    /\ outside_io = [w \in OutsideWriters |-> NotAtWork]

\* run_full_pipeline is not running
PipelineIdle ==
    /\ step_index = 1
    /\ attempted = <<>>
    /\ outcomes = <<>>
    /\ step_log = <<>>
    /\ succeeded = 0
    /\ failed = 0
    /\ pipeline_pc = "idle"
    /\ NoStepCalled

\* check_all_links is never run
LinksIdle ==
    /\ link_db = <<>>
    /\ health = <<>>
    /\ link_pc = "off"
    /\ tasks = <<>>
    /\ task_state = <<>>
    /\ results = <<>>
    /\ semaphore = 0
    /\ waiters = <<>>
    /\ requests = <<>>
    /\ last_result = <<>>
    /\ link_stats = <<>>
    /\ runs = 0
    /\ runs_allowed = 0
    /\ server = {}

Init ==
    /\ jobsFile \in JobsFiles
    /\ archivedFile \in ArchivedFiles
    /\ pc = "load_database"
    /\ db = <<>>
    /\ archived_hashes = {}
    /\ listings = <<>>
    /\ hash_removed = 0
    /\ url_removed = 0
    /\ fuzzy_removed = 0
    /\ fz = FuzzyStart
    /\ logline = <<>>
    /\ ret = <<>>
    /\ io = <<>>
    /\ stages = <<>>
    /\ ScorerIdle
    /\ PipelineIdle
    /\ LinksIdle

\* the `if not db.listings` test left out
LoadDatabase_NoEmptyCheck ==
    /\ pc = "load_database"
    /\ db' = load_database(jobsFile)
    /\ io' = io \o load_database_io(jobsFile)
    /\ pc' = "load_archived_hashes"
    /\ UNCHANGED <<jobsFile, archivedFile, archived_hashes, listings,
                   hash_removed, url_removed, fuzzy_removed, fz, logline, ret,
                   stages>>
    /\ UNCHANGED otherVars

\* lines 287-291
LoadDatabase ==
    /\ pc = "load_database"
    /\ db' = load_database(jobsFile)
    /\ io' = io \o load_database_io(jobsFile)
    /\ IF Len(db') = 0
       THEN /\ ret' = [total_removed |-> 0]
            /\ pc' = "done"
       ELSE /\ ret' = ret
            /\ pc' = "load_archived_hashes"
    /\ UNCHANGED <<jobsFile, archivedFile, archived_hashes, listings,
                   hash_removed, url_removed, fuzzy_removed, fz, logline, stages>>
    /\ UNCHANGED otherVars

\* a missing archived.json raises instead of giving the empty set
LoadArchivedHashes_MissingRaises ==
    /\ pc = "load_archived_hashes"
    /\ archived_hashes' = load_archived_hashes(archivedFile)
    /\ io' = io \o load_archived_hashes_io(archivedFile)
    /\ pc' = IF archivedFile.exists THEN "stage1" ELSE "raised"
    /\ UNCHANGED <<jobsFile, archivedFile, db, listings, hash_removed,
                   url_removed, fuzzy_removed, fz, logline, ret, stages>>
    /\ UNCHANGED otherVars

\* line 295
LoadArchivedHashes ==
    /\ pc = "load_archived_hashes"
    /\ archived_hashes' = load_archived_hashes(archivedFile)
    /\ io' = io \o load_archived_hashes_io(archivedFile)
    /\ pc' = "stage1"
    /\ UNCHANGED <<jobsFile, archivedFile, db, listings, hash_removed,
                   url_removed, fuzzy_removed, fz, logline, ret, stages>>
    /\ UNCHANGED otherVars

\* line 298
Stage1 ==
    /\ pc = "stage1"
    /\ LET r == dedup_by_content_hash(db)
       IN  /\ listings' = r.out
           /\ hash_removed' = r.removed
    /\ stages' = Append(stages, "hash")
    /\ pc' = "stage2"
    /\ UNCHANGED <<jobsFile, archivedFile, db, archived_hashes, url_removed,
                   fuzzy_removed, fz, logline, ret, io>>
    /\ UNCHANGED otherVars

\* the URL stage run on db.listings instead of the hash stage's output
Stage2_OnDb ==
    /\ pc = "stage2"
    /\ LET r == dedup_by_url(db)
       IN  /\ listings' = r.out
           /\ url_removed' = r.removed
    /\ stages' = Append(stages, "url")
    /\ pc' = "stage3"
    /\ UNCHANGED <<jobsFile, archivedFile, db, archived_hashes, hash_removed,
                   fuzzy_removed, fz, logline, ret, io>>
    /\ UNCHANGED otherVars

\* line 301
Stage2 ==
    /\ pc = "stage2"
    /\ LET r == dedup_by_url(listings)
       IN  /\ listings' = r.out
           /\ url_removed' = r.removed
    /\ stages' = Append(stages, "url")
    /\ pc' = "stage3"
    /\ UNCHANGED <<jobsFile, archivedFile, db, archived_hashes, hash_removed,
                   fuzzy_removed, fz, logline, ret, io>>
    /\ UNCHANGED otherVars

\* line 304 entering _dedup_fuzzy, lines 210-214
Stage3Begin ==
    /\ pc = "stage3"
    /\ stages' = Append(stages, "fuzzy")
    /\ fz' = FuzzyStart
    /\ IF Len(listings) <= 1
       THEN /\ fuzzy_removed' = 0
            /\ pc' = "finish"
       ELSE /\ fuzzy_removed' = fuzzy_removed
            /\ pc' = "fuzzy_loop"
    /\ UNCHANGED <<jobsFile, archivedFile, db, archived_hashes, listings,
                   hash_removed, url_removed, logline, ret, io>>
    /\ UNCHANGED otherVars

\* lines 216-222
FuzzyOuter ==
    /\ pc = "fuzzy_loop"
    /\ fz.j = 0
    /\ fz.i <= Len(listings)
    /\ fz' = FuzzyStep(listings, archived_hashes, fz)
    /\ UNCHANGED <<jobsFile, archivedFile, pc, db, archived_hashes, listings,
                   hash_removed, url_removed, fuzzy_removed, logline, ret, io,
                   stages>>
    /\ UNCHANGED otherVars

\* lines 224-270
FuzzyInner ==
    /\ pc = "fuzzy_loop"
    /\ fz.j > 0
    /\ fz' = FuzzyStep(listings, archived_hashes, fz)
    /\ UNCHANGED <<jobsFile, archivedFile, pc, db, archived_hashes, listings,
                   hash_removed, url_removed, fuzzy_removed, logline, ret, io,
                   stages>>
    /\ UNCHANGED otherVars

\* lines 272-275 and the assignment of line 304
FuzzyReturn ==
    /\ pc = "fuzzy_loop"
    /\ fz.j = 0
    /\ fz.i > Len(listings)
    /\ listings' = FuzzyResult(listings, fz.removed_indices)
    /\ fuzzy_removed' = fz.removed
    /\ pc' = "finish"
    /\ UNCHANGED <<jobsFile, archivedFile, db, archived_hashes, hash_removed,
                   url_removed, fz, logline, ret, io, stages>>
    /\ UNCHANGED otherVars

\* the fuzzy count left out of the sum
total_removed_NoFuzzy(h, u, f) == h + u

\* line 306
total_removed(h, u, f) == h + u + f

\* jobs.json is written only when a stage removed something
Finish_SkipsUnchanged ==
    /\ pc = "finish"
    /\ logline' = <<hash_removed, url_removed, fuzzy_removed,
                    total_removed(hash_removed, url_removed, fuzzy_removed)>>
    /\ db' = listings
    /\ IF total_removed(hash_removed, url_removed, fuzzy_removed) = 0
       THEN UNCHANGED <<jobsFile, io>>
       ELSE /\ jobsFile' = save_database(db')
            /\ io' = Append(io, "write jobs.json")
    /\ ret' = [total_removed |->
                  total_removed(hash_removed, url_removed, fuzzy_removed)]
    /\ pc' = "done"
    /\ UNCHANGED <<archivedFile, archived_hashes, listings, hash_removed,
                   url_removed, fuzzy_removed, fz, stages>>
    /\ UNCHANGED otherVars

\* `db.listings = listings` left out: the loaded list is saved again
Finish_SavesLoaded ==
    /\ pc = "finish"
    /\ logline' = <<hash_removed, url_removed, fuzzy_removed,
                    total_removed(hash_removed, url_removed, fuzzy_removed)>>
    /\ db' = db
    /\ jobsFile' = save_database(db')
    /\ io' = Append(io, "write jobs.json")
    /\ ret' = [total_removed |->
                  total_removed(hash_removed, url_removed, fuzzy_removed)]
    /\ pc' = "done"
    /\ UNCHANGED <<archivedFile, archived_hashes, listings, hash_removed,
                   url_removed, fuzzy_removed, fz, stages>>
    /\ UNCHANGED otherVars

\* lines 306-319
Finish ==
    /\ pc = "finish"
    /\ logline' = <<hash_removed, url_removed, fuzzy_removed,
                    total_removed(hash_removed, url_removed, fuzzy_removed)>>
    /\ db' = listings
    /\ jobsFile' = save_database(db')
    /\ io' = Append(io, "write jobs.json")
    /\ ret' = [total_removed |->
                  total_removed(hash_removed, url_removed, fuzzy_removed)]
    /\ pc' = "done"
    /\ UNCHANGED <<archivedFile, archived_hashes, listings, hash_removed,
                   url_removed, fuzzy_removed, fz, stages>>
    /\ UNCHANGED otherVars

Next ==
    \/ LoadDatabase
    \/ LoadArchivedHashes
    \/ Stage1
    \/ Stage2
    \/ Stage3Begin
    \/ FuzzyOuter
    \/ FuzzyInner
    \/ FuzzyReturn
    \/ Finish

Spec == Init /\ [][Next]_vars

(***************************************************************************)
(* _compute_token_overlap called on its own, on every pair of titles.      *)
(***************************************************************************)

\* deduplicate_all is not running
DedupIdle ==
    /\ jobsFile = MissingFile
    /\ archivedFile = MissingFile
    /\ pc = "idle"
    /\ db = <<>>
    /\ archived_hashes = {}
    /\ listings = <<>>
    /\ hash_removed = 0
    /\ url_removed = 0
    /\ fuzzy_removed = 0
    /\ fz = FuzzyStart
    /\ logline = <<>>
    /\ ret = <<>>
    /\ io = <<>>
    /\ stages = <<>>

\* empty, whitespace only, case variants, a repeated token, subsets
Titles ==
    { "", "   ", "SWE", "SWE Intern", "SWE INTERN", "swe intern",
      "swe  intern", "Intern SWE intern", "Data Analyst",
      "ML Intern Summer 2026 Atlanta", "ML Intern Summer 2026 Atlanta GA" }
    \cup DOMAIN UnicodeChars

ScorerInit ==
    /\ DedupIdle
    /\ PipelineIdle
    /\ LinksIdle
    /\ title_a \in Titles
    /\ title_b \in Titles
    /\ overlap = <<>>

\* lines 168-189
ComputeTokenOverlap ==
    /\ overlap = <<>>
    /\ overlap' = <<compute_token_overlap(title_a, title_b)>>
    /\ UNCHANGED <<title_a, title_b>>
    /\ UNCHANGED notScorerVars

ScorerNext == ComputeTokenOverlap

ScorerSpec == ScorerInit /\ [][ScorerNext]_vars

(***************************************************************************)
(* run_full_pipeline and _run_step (main.py), step by step: _run_step      *)
(* calls the step function, the function loads jobs.json and may save it,  *)
(* the function returns or raises, _run_step returns to the loop.  Every   *)
(* step function of src/ loads jobs.json at most once and saves it, if at  *)
(* all, once and after the load; archive_stale then writes archived.json.  *)
(* A step that holds loaded listings is stale once someone else has saved  *)
(* the file.  No lock is taken on the files: the functions of              *)
(* OutsideWriters, run by other processes, load and save them at any       *)
(* moment of the run.  A step function ends by returning, by an Exception  *)
(* (caught by _run_step) or by another BaseException (not caught).         *)
(***************************************************************************)

\* the list `steps`, lines 62-69
steps ==
    << [name |-> "Discover new listings", func |-> "discover_all",
        is_async |-> TRUE],
       [name |-> "Validate & enrich with AI", func |-> "validate_all",
        is_async |-> FALSE],
       [name |-> "Deduplicate listings", func |-> "deduplicate_all",
        is_async |-> FALSE],
       [name |-> "Check link health", func |-> "check_all_links",
        is_async |-> TRUE],
       [name |-> "Archive stale listings", func |-> "archive_stale",
        is_async |-> FALSE],
       [name |-> "Generate README", func |-> "generate_readme",
        is_async |-> FALSE] >>

\* how the call of a step function ends: it returns, it raises an exception
\* derived from Exception, or it raises another BaseException
\* (KeyboardInterrupt, SystemExit, asyncio.CancelledError)
StepOutcomes == {"returns", "raises", "raises_base"}

\* the outcomes after which _run_step returns: `except Exception` (line 48)
\* lets every other BaseException through
CaughtOutcomes == {"returns", "raises"}

\* _run_step: True when func returned, False when it raised an Exception
\* (lines 40-50)
run_step(outcome) == outcome = "returns"

\* the record _run_step logs last (lines 46 and 49)
run_step_log(name, outcome) ==
    IF outcome = "returns"
    THEN <<"Completed step", name>>
    ELSE <<"Step failed", name>>

PipelineInit ==
    /\ DedupIdle
    /\ ScorerIdle
    /\ LinksIdle
    /\ step_index = 1
    /\ attempted = <<>>
    /\ outcomes = <<>>
    /\ step_log = <<>>
    /\ succeeded = 0
    /\ failed = 0
    /\ pipeline_pc = "steps"
    /\ NoStepCalled

\* lines 79-86: the loop is over, the summary is logged
PipelineComplete ==
    /\ pipeline_pc = "steps"
    /\ step_index > Len(steps)
    /\ step_log' = Append(step_log,
                          <<"Pipeline complete", succeeded, succeeded + failed,
                            failed>>)
    /\ pipeline_pc' = "done"
    /\ UNCHANGED <<step_index, attempted, outcomes, succeeded, failed>>
    /\ UNCHANGED <<running, awaited, store, step_io, archived_store,
                   outside_io>>
    /\ UNCHANGED notPipelineVars

\* the step functions that save jobs.json (generate_readme only loads it)
StoreWriters ==
    {"discover_all", "validate_all", "deduplicate_all", "check_all_links",
     "archive_stale"}

\* a coroutine function is called and left running, _run_step returns at once
StartStep_Detached ==
    /\ pipeline_pc = "steps"
    /\ awaited = 0
    /\ step_index <= Len(steps)
    /\ running' = running \cup {step_index}
    /\ attempted' = Append(attempted, steps[step_index].func)
    /\ IF steps[step_index].is_async
       THEN /\ awaited' = 0
            /\ outcomes' = Append(outcomes, "returns")
            /\ step_log' = Append(step_log,
                                  run_step_log(steps[step_index].name, "returns"))
            /\ succeeded' = succeeded + 1
            /\ step_index' = step_index + 1
       ELSE /\ awaited' = step_index
            /\ UNCHANGED <<outcomes, step_log, succeeded, step_index>>
    /\ UNCHANGED <<failed, pipeline_pc, store, step_io, archived_store,
                   outside_io>>
    /\ UNCHANGED notPipelineVars

\* lines 39-44: _run_step calls func(), or asyncio.run(func()), and is
\* inside the call until it returns or raises
StartStep ==
    /\ pipeline_pc = "steps"
    /\ awaited = 0
    /\ step_index <= Len(steps)
    /\ running' = running \cup {step_index}
    /\ awaited' = step_index
    /\ attempted' = Append(attempted, steps[step_index].func)
    /\ UNCHANGED <<step_index, outcomes, step_log, succeeded, failed,
                   pipeline_pc, store, step_io, archived_store, outside_io>>
    /\ UNCHANGED notPipelineVars

\* after a save by someone else, those of `others` that hold listings they
\* loaded before it hold a content that is no longer the file's
StaleAfterSave(held, others) ==
    [x \in DOMAIN held |->
        IF x \in others /\ held[x].phase = "loaded"
        THEN [held[x] EXCEPT !.stale = TRUE]
        ELSE held[x]]

\* a running step function loads jobs.json
StepLoads ==
    /\ \E s \in running :
          /\ step_io[s].phase = "none"
          /\ step_io' = [step_io EXCEPT ![s] =
                             [phase |-> "loaded", stale |-> FALSE]]
    /\ UNCHANGED <<step_index, attempted, outcomes, step_log, succeeded, failed,
                   pipeline_pc, running, awaited, store, archived_store,
                   outside_io>>
    /\ UNCHANGED notPipelineVars

\* a running step function saves what it made of the listings it loaded
\* (validate.py, line 536; deduplicate.py, line 317; check_links.py, line
\* 280; archive_stale.py, line 121)
StepSaves ==
    /\ \E s \in running :
          /\ steps[s].func \in StoreWriters
          /\ step_io[s].phase = "loaded"
          /\ store' = steps[s].func
          /\ step_io' = StaleAfterSave([step_io EXCEPT ![s].phase = "saved"],
                                       running \ {s})
    /\ UNCHANGED <<step_index, attempted, outcomes, step_log, succeeded, failed,
                   pipeline_pc, running, awaited, archived_store, outside_io>>
    /\ UNCHANGED notPipelineVars

\* archive_stale, having written jobs.json, writes archived.json
\* (archive_stale.py, line 122)
StepSavesArchived ==
    /\ \E s \in running :
          /\ steps[s].func = "archive_stale"
          /\ step_io[s].phase = "saved"
          /\ archived_store' = steps[s].func
          /\ step_io' = [step_io EXCEPT ![s].phase = "archived"]
    /\ UNCHANGED <<step_index, attempted, outcomes, step_log, succeeded, failed,
                   pipeline_pc, running, awaited, store, outside_io>>
    /\ UNCHANGED notPipelineVars

\* the functions outside the run that hold listings or are between their
\* two writes
OutsideActive == {w \in OutsideWriters : outside_io[w].phase # "none"}

\* a function of OutsideWriters loads jobs.json in a process of its own, at
\* any moment of the pipeline run (main.py, lines 127-128;
\* process_issues.py, line 356; the loads of the step functions)
OutsideLoads ==
    /\ Cardinality(OutsideActive) < MaxOutside
    /\ \E w \in OutsideWriters :
          /\ outside_io[w].phase = "none"
          /\ outside_io' = [outside_io EXCEPT ![w] = [phase |-> "loaded"]]
    /\ UNCHANGED <<step_index, attempted, outcomes, step_log, succeeded, failed,
                   pipeline_pc, running, awaited, store, step_io,
                   archived_store>>
    /\ UNCHANGED notPipelineVars

\* what the outside function w has done with jobs.json once it has saved
\* it: archive_stale has archived.json still to write, the others return and
\* can be run again
AfterOutsideSave(w) ==
    IF w = "archive_stale"
    THEN [phase |-> "saved"]
    ELSE NotAtWork

\* run_clean replaces jobs.json with what it kept of the listings it loaded
\* (main.py, lines 162-165); process_issues saves the listings it loaded
\* plus the accepted ones (process_issues.py, lines 437-438); a step
\* function run outside this pipeline run saves as it does inside
\* (main.py, lines 89-93 and 103-107, and the `__main__` blocks).
OutsideSaves ==
    /\ \E w \in OutsideWriters :
          /\ outside_io[w].phase = "loaded"
          /\ store' = w
          /\ outside_io' = [outside_io EXCEPT ![w] = AfterOutsideSave(w)]
          /\ step_io' = StaleAfterSave(step_io, running)
    /\ UNCHANGED <<step_index, attempted, outcomes, step_log, succeeded, failed,
                   pipeline_pc, running, awaited, archived_store>>
    /\ UNCHANGED notPipelineVars

\* archive_stale run outside this pipeline run writes archived.json and
\* returns (archive_stale.py, line 122)
OutsideSavesArchived ==
    /\ outside_io["archive_stale"].phase = "saved"
    /\ archived_store' = "archive_stale"
    /\ outside_io' = [outside_io EXCEPT !["archive_stale"] = NotAtWork]
    /\ UNCHANGED <<step_index, attempted, outcomes, step_log, succeeded, failed,
                   pipeline_pc, running, awaited, store, step_io>>
    /\ UNCHANGED notPipelineVars

\* an outside function ends without the write it had still to make: it
\* found nothing to save (process_issues.py, line 437; archive_stale.py,
\* the return before line 121) or it raised
OutsideReturns ==
    /\ \E w \in OutsideActive :
          outside_io' = [outside_io EXCEPT ![w] = NotAtWork]
    /\ UNCHANGED <<step_index, attempted, outcomes, step_log, succeeded, failed,
                   pipeline_pc, running, awaited, store, step_io,
                   archived_store>>
    /\ UNCHANGED notPipelineVars

\* no exception is caught: whatever a step raises leaves _run_step and ends
\* run_full_pipeline
EndStep_Propagates ==
    /\ awaited \in running
    /\ \E outcome \in StepOutcomes :
          /\ outcomes' = Append(outcomes, outcome)
          /\ IF outcome = "returns"
             THEN /\ step_log' = Append(step_log,
                                        run_step_log(steps[awaited].name,
                                                     outcome))
                  /\ succeeded' = succeeded + 1
                  /\ step_index' = step_index + 1
                  /\ pipeline_pc' = pipeline_pc
             ELSE /\ step_log' = step_log
                  /\ succeeded' = succeeded
                  /\ step_index' = step_index
                  /\ pipeline_pc' = "raised"
          /\ failed' = failed
    /\ running' = running \ {awaited}
    /\ awaited' = 0
    /\ step_io' = [step_io EXCEPT ![awaited] = NoAccess]
    /\ UNCHANGED <<attempted, store, archived_store, outside_io>>
    /\ UNCHANGED notPipelineVars

\* lines 40-50 and 74-77: the called function ends, at any point of its
\* work (the listings it held are gone with it).  When it returned or raised
\* an Exception, _run_step logs and returns and the loop counts and goes to
\* the next step.  Any other BaseException passes `except Exception` (line
\* 48): nothing is logged or counted, the exception leaves _run_step, the
\* loop and run_full_pipeline, and the remaining steps are not called.
EndStep ==
    /\ awaited \in running
    /\ \E outcome \in StepOutcomes :
          /\ outcomes' = Append(outcomes, outcome)
          /\ IF outcome \in CaughtOutcomes
             THEN /\ step_log' = Append(step_log,
                                        run_step_log(steps[awaited].name,
                                                     outcome))
                  /\ IF run_step(outcome)
                     THEN /\ succeeded' = succeeded + 1
                          /\ failed' = failed
                     ELSE /\ succeeded' = succeeded
                          /\ failed' = failed + 1
                  /\ step_index' = step_index + 1
                  /\ pipeline_pc' = pipeline_pc
             ELSE /\ UNCHANGED <<step_log, succeeded, failed, step_index>>
                  /\ pipeline_pc' = "raised"
    /\ running' = running \ {awaited}
    /\ awaited' = 0
    /\ step_io' = [step_io EXCEPT ![awaited] = NoAccess]
    /\ UNCHANGED <<attempted, store, archived_store, outside_io>>
    /\ UNCHANGED notPipelineVars

SerialNext ==
    \/ StartStep
    \/ StepLoads
    \/ StepSaves
    \/ StepSavesArchived
    \/ OutsideLoads
    \/ OutsideSaves
    \/ OutsideSavesArchived
    \/ OutsideReturns
    \/ EndStep
    \/ PipelineComplete

SerialSpec == PipelineInit /\ [][SerialNext]_vars

(***************************************************************************)
(* check_all_links (scripts/check_links.py).  A listing is [id, status];   *)
(* link_health.json maps an id to its consecutive_failures (the dates      *)
(* date_last_verified and last_checked take no part in any decision and    *)
(* are left out).  The answer to a HEAD request is [status_code, raises]:  *)
(* raises is "" for a response, else the exception client.head raised.     *)
(***************************************************************************)

MAX_CONCURRENT == 10
\* `consecutive_failures >= 2`
CloseAfter == 2

\* runs of check_all_links in a scenario
MaxRuns == 3
\* open listings of the concurrency scenario
MaxOpen == 11

DEAD_STATUSES == {404, 410, 403}
TRANSIENT_STATUSES == {429, 500, 502, 503}

Response(status_code) == [status_code |-> status_code, raises |-> ""]
Raises(exc) == [status_code |-> 0, raises |-> exc]

AllResponses ==
    { Response(c) : c \in {200, 301} \cup DEAD_STATUSES \cup TRANSIENT_STATUSES }
    \cup { Raises("TimeoutException"), Raises("RequestError"),
           Raises("Exception") }

\* _check_single_link, lines 126-169: the tuple it returns
check_single_link(listing_id, answer) ==
    IF answer.raises = "TimeoutException"
    THEN [listing_id |-> listing_id, result_type |-> "error",
          status_code |-> 0, error |-> "timeout"]
    ELSE IF answer.raises # ""
    THEN [listing_id |-> listing_id, result_type |-> "error",
          status_code |-> 0, error |-> answer.raises]
    ELSE [listing_id |-> listing_id,
          result_type |->
              IF answer.status_code = 200 THEN "healthy"
              ELSE IF answer.status_code \in DEAD_STATUSES THEN "dead"
              ELSE IF answer.status_code \in TRANSIENT_STATUSES THEN "transient"
              ELSE "unknown",
          status_code |-> answer.status_code, error |-> ""]

\* the slot of a task that has not returned yet
Pending ==
    [listing_id |-> "", result_type |-> "pending", status_code |-> 0,
     error |-> ""]

LinkListing(id, status) == [id |-> id, status |-> status]

\* lines 187-190: the positions of the OPEN listings, in order
RECURSIVE OpenPositions(_, _)
OpenPositions(ls, k) ==
    IF k > Len(ls)
    THEN <<>>
    ELSE IF ls[k].status = "open"
    THEN <<k>> \o OpenPositions(ls, k + 1)
    ELSE OpenPositions(ls, k + 1)

\* line 207: listing_by_id[id] is the last listing of db.listings with the id
ListingById(ls, id) ==
    CHOOSE k \in 1..Len(ls) :
        /\ ls[k].id = id
        /\ \A m \in (k + 1)..Len(ls) : ls[m].id # id

ZeroStats ==
    [checked |-> 0, healthy |-> 0, closed |-> 0, transient_errors |-> 0,
     unknown |-> 0]

\* one pass through the loop of lines 230-277; st is [db, health, stats]
ProcessResult(st, r) ==
    LET id == r.listing_id
        k == ListingById(st.db, id)
    IN  IF r.result_type = "healthy"
        THEN IF id \in DOMAIN st.health
             THEN [st EXCEPT !.health = (id :> 0) @@ st.health,
                             !.stats.healthy = @ + 1]
             ELSE [st EXCEPT !.stats.healthy = @ + 1]
        ELSE IF r.result_type = "dead"
        THEN LET before == IF id \in DOMAIN st.health THEN st.health[id] ELSE 0
                 count == before + 1
                 h == (id :> count) @@ st.health
             IN  IF count >= CloseAfter
                 THEN [st EXCEPT !.health = h,
                                 !.db[k].status = "closed",
                                 !.stats.closed = @ + 1]
                 ELSE [st EXCEPT !.health = h]
        ELSE IF r.result_type = "unknown"
        THEN [st EXCEPT !.stats.unknown = @ + 1]
        ELSE [st EXCEPT !.stats.transient_errors = @ + 1]

RECURSIVE ProcessLoop(_, _, _)
ProcessLoop(rs, n, st) ==
    IF n > Len(rs)
    THEN st
    ELSE ProcessLoop(rs, n + 1, ProcessResult(st, rs[n]))

\* jobs.json files of the run-after-run scenarios, ids distinct as the
\* hash stage leaves them: one open listing, two, one closed and one open
LinkDatabases ==
    { << LinkListing("a", "open") >>,
      << LinkListing("a", "open"), LinkListing("b", "open") >>,
      << LinkListing("a", "closed"), LinkListing("b", "open") >> }

\* ids of the concurrency scenario
LinkIds ==
    << "id1", "id2", "id3", "id4", "id5", "id6", "id7", "id8", "id9", "id10",
       "id11", "id12", "id13" >>

\* n open listings, or n open listings after a closed one
ManyOpen(n, closed_first) ==
    [k \in 1..n |->
        LinkListing(LinkIds[k],
                    IF closed_first /\ k = 1 THEN "closed" ELSE "open")]

\* the state before the first run: no link_health.json yet
LinkStart(databases, answers, n_runs) ==
    /\ link_db \in databases
    /\ health = <<>>
    /\ link_pc = "idle"
    /\ tasks = <<>>
    /\ task_state = <<>>
    /\ results = <<>>
    /\ semaphore = MAX_CONCURRENT
    /\ waiters = <<>>
    /\ requests = [k \in 1..Len(link_db) |-> 0]
    /\ last_result = [k \in 1..Len(link_db) |-> "none"]
    /\ link_stats = ZeroStats
    /\ runs = 0
    /\ runs_allowed = n_runs
    /\ server = answers

\* the small databases with every kind of answer, or one open listing more
\* than the semaphore has slots, on sites that answer 200
LinkInit ==
    /\ DedupIdle
    /\ ScorerIdle
    /\ PipelineIdle
    /\ \/ LinkStart(LinkDatabases, AllResponses, MaxRuns)
       \/ LinkStart({ManyOpen(MAX_CONCURRENT + 1, FALSE)}, {Response(200)}, 1)

\* three open listings, or MaxOpen open listings after a closed one; sites
\* that answer 200; one run
ConcInit ==
    /\ DedupIdle
    /\ ScorerIdle
    /\ PipelineIdle
    /\ LinkStart({ManyOpen(3, FALSE), ManyOpen(MaxOpen + 1, TRUE)},
                 {Response(200)}, 1)

\* lines 182-226, up to the first suspension of asyncio.gather.  With no
\* open listing the function returns the zero stats and saves nothing.
StartRun ==
    /\ link_pc = "idle"
    /\ runs < runs_allowed
    /\ LET open_listings == OpenPositions(link_db, 1)
       IN  IF Len(open_listings) = 0
           THEN /\ link_stats' = ZeroStats
                /\ runs' = runs + 1
                /\ last_result' = [k \in 1..Len(link_db) |-> "none"]
                /\ UNCHANGED <<link_pc, tasks, task_state, results, semaphore,
                               waiters, requests>>
           ELSE /\ tasks' = [t \in 1..Len(open_listings) |->
                               [listing_id |-> link_db[open_listings[t]].id,
                                pos |-> open_listings[t]]]
                /\ task_state' = [t \in 1..Len(open_listings) |-> "waiting"]
                /\ results' = [t \in 1..Len(open_listings) |-> Pending]
                /\ semaphore' = MAX_CONCURRENT
                /\ waiters' = <<>>
                /\ requests' = [k \in 1..Len(link_db) |-> 0]
                /\ link_pc' = "gather"
                /\ UNCHANGED <<link_stats, runs, last_result>>
    /\ UNCHANGED <<link_db, health, runs_allowed, server>>
    /\ UNCHANGED notLinkVars

\* asyncio.Semaphore.locked(): no slot can be taken at once.  No task of
\* the gather is cancelled, so every queued future counts.
Locked == semaphore = 0 \/ waiters # <<>>

\* asyncio.Semaphore._wake_up_next() on the counter value and the queue ws:
\* the first waiter whose future is not done takes the slot at once
WakeUpNext(value, ws) ==
    IF \E n \in 1..Len(ws) : ~ws[n].woken
    THEN LET n == CHOOSE n \in 1..Len(ws) :
                      /\ ~ws[n].woken
                      /\ \A m \in 1..(n - 1) : ws[m].woken
         IN  [value |-> value - 1, waiters |-> [ws EXCEPT ![n].woken = TRUE]]
    ELSE [value |-> value, waiters |-> ws]

\* the task has not run yet: gather has only scheduled it
Unstarted(t) ==
    /\ task_state[t] = "waiting"
    /\ \A n \in 1..Len(waiters) : waiters[n].task # t

\* the event loop starts the tasks in the order gather was given them
NextToStart ==
    CHOOSE t \in 1..Len(tasks) :
        /\ Unstarted(t)
        /\ \A u \in 1..(t - 1) : ~Unstarted(u)

\* `async with semaphore` entered without waiting for a free slot
AcquireAndSend_NoLimit ==
    /\ link_pc = "gather"
    /\ \E t \in 1..Len(tasks) : Unstarted(t)
    /\ LET t == NextToStart
       IN  /\ semaphore' = semaphore - 1
           /\ task_state' = [task_state EXCEPT ![t] = "in_flight"]
           /\ requests' = [requests EXCEPT ![tasks[t].pos] = @ + 1]
    /\ UNCHANGED <<link_db, health, link_pc, tasks, results, waiters,
                   last_result, link_stats, runs, runs_allowed, server>>
    /\ UNCHANGED notLinkVars

\* lines 125-131, a slot is free: the task's first step enters
\* `async with semaphore` and sends its HEAD
AcquireAndSend ==
    /\ link_pc = "gather"
    /\ \E t \in 1..Len(tasks) : Unstarted(t)
    /\ ~Locked
    /\ LET t == NextToStart
       IN  /\ semaphore' = semaphore - 1
           /\ task_state' = [task_state EXCEPT ![t] = "in_flight"]
           /\ requests' = [requests EXCEPT ![tasks[t].pos] = @ + 1]
    /\ UNCHANGED <<link_db, health, link_pc, tasks, results, waiters,
                   last_result, link_stats, runs, runs_allowed, server>>
    /\ UNCHANGED notLinkVars

\* line 125, no slot is free: the task's first step stops inside
\* semaphore.acquire(), at the end of the queue
WaitForSlot ==
    /\ link_pc = "gather"
    /\ \E t \in 1..Len(tasks) : Unstarted(t)
    /\ Locked
    /\ waiters' = Append(waiters, [task |-> NextToStart, woken |-> FALSE])
    /\ UNCHANGED <<link_db, health, link_pc, tasks, task_state, results,
                   semaphore, requests, last_result, link_stats, runs,
                   runs_allowed, server>>
    /\ UNCHANGED notLinkVars

\* lines 125-131, at a later pass of the event loop: the task a release()
\* gave the slot to leaves the queue and semaphore.acquire() (which passes a
\* counter left above zero on to the next waiter) and sends its HEAD
ResumeAndSend ==
    /\ link_pc = "gather"
    /\ waiters # <<>>
    /\ waiters[1].woken
    /\ LET t == waiters[1].task
           w == IF semaphore > 0
                THEN WakeUpNext(semaphore, Tail(waiters))
                ELSE [value |-> semaphore, waiters |-> Tail(waiters)]
       IN  /\ semaphore' = w.value
           /\ waiters' = w.waiters
           /\ task_state' = [task_state EXCEPT ![t] = "in_flight"]
           /\ requests' = [requests EXCEPT ![tasks[t].pos] = @ + 1]
    /\ UNCHANGED <<link_db, health, link_pc, tasks, results, last_result,
                   link_stats, runs, runs_allowed, server>>
    /\ UNCHANGED notLinkVars

\* lines 132-169: the answer arrives, the task returns its tuple and leaves
\* `async with semaphore`; release() adds one to the counter and hands it
\* to the first task of the queue that has not been woken
ReceiveAndRelease ==
    /\ link_pc = "gather"
    /\ \E t \in 1..Len(tasks) :
          /\ task_state[t] = "in_flight"
          /\ \E answer \in server :
                results' = [results EXCEPT
                               ![t] = check_single_link(tasks[t].listing_id,
                                                        answer)]
          /\ task_state' = [task_state EXCEPT ![t] = "done"]
    /\ LET w == WakeUpNext(semaphore + 1, waiters)
       IN  /\ semaphore' = w.value
           /\ waiters' = w.waiters
    /\ UNCHANGED <<link_db, health, link_pc, tasks, requests, last_result,
                   link_stats, runs, runs_allowed, server>>
    /\ UNCHANGED notLinkVars

\* lines 226-293: gather returns, the results are processed, both files
\* are saved
ProcessResults ==
    /\ link_pc = "gather"
    /\ \A t \in 1..Len(tasks) : task_state[t] = "done"
    /\ LET st == ProcessLoop(results, 1,
                             [db |-> link_db, health |-> health,
                              stats |-> [ZeroStats EXCEPT
                                            !.checked = Len(results)]])
       IN  /\ link_db' = st.db
           /\ health' = st.health
           /\ link_stats' = st.stats
    /\ last_result' =
          [k \in 1..Len(link_db) |->
              IF \E t \in 1..Len(tasks) : tasks[t].pos = k
              THEN results[CHOOSE t \in 1..Len(tasks) : tasks[t].pos = k]
                      .result_type
              ELSE "none"]
    /\ runs' = runs + 1
    /\ link_pc' = "idle"
    /\ UNCHANGED <<tasks, task_state, results, semaphore, waiters, requests,
                   runs_allowed, server>>
    /\ UNCHANGED notLinkVars

LinkNext ==
    \/ StartRun
    \/ AcquireAndSend
    \/ WaitForSlot
    \/ ResumeAndSend
    \/ ReceiveAndRelease
    \/ ProcessResults

\* run after run on small databases, every kind of answer; one run on
\* MAX_CONCURRENT + 1 open listings
LinkSpec == LinkInit /\ [][LinkNext]_vars

\* one run on more open listings than MAX_CONCURRENT
ConcSpec == ConcInit /\ [][LinkNext]_vars

(***************************************************************************)
(* Properties                                                              *)
(***************************************************************************)

IdsOf(ls) == {ls[k].id : k \in 1..Len(ls)}
UrlsOf(ls) == {ls[k].apply_url : k \in 1..Len(ls)}
DatesOf(S) == {l.date_added : l \in S}
Members(ls) == {ls[k] : k \in 1..Len(ls)}

\* what deduplicate_all hands to each stage, from the loaded listings d
HashOutput(d) == dedup_by_content_hash(d).out
UrlOutput(d) == dedup_by_url(HashOutput(d)).out

\* the two scorers as sections 4.1 and 4.2 state them, with the thresholds
\* of section 4.5: company similarity > 90 and token overlap > 0.8
SimilarCompanies(a, b) ==
    fuzz_ratio(Lower(Chars[a.company]), Lower(Chars[b.company])) > 90
OverlappingRoles(a, b) ==
    LET ta == TokenSet(a.role)
        tb == TokenSet(b.role)
    IN  /\ ta \cup tb # {}
        /\ 10 * Cardinality(ta \cap tb) > 8 * Cardinality(ta \cup tb)

\* C1: after the hash stage the surviving listings have pairwise distinct
\* ids, and every id of the input has exactly one survivor.
C1_HashStageOnePerId ==
    pc = "stage2" =>
        /\ \A a, b \in 1..Len(listings) :
              a # b => listings[a].id # listings[b].id
        /\ IdsOf(listings) = IdsOf(db)
        /\ Len(listings) = Cardinality(IdsOf(db))

C1_Witness ==
    /\ pc = "stage2"
    /\ hash_removed = 1
    /\ Len(listings) = 2
    /\ db[1].id # db[2].id
    /\ db[3].id = db[1].id

\* C2: after the URL stage the surviving listings have pairwise distinct
\* apply_url values and every apply_url of the stage's input has exactly one
\* survivor, so listings with different apply_url are never collapsed.
C2_UrlStageOnePerUrl ==
    pc = "stage3" =>
        /\ \A a, b \in 1..Len(listings) :
              a # b => listings[a].apply_url # listings[b].apply_url
        /\ UrlsOf(listings) = UrlsOf(HashOutput(db))
        /\ Len(listings) = Cardinality(UrlsOf(HashOutput(db)))

C2_Witness ==
    /\ pc = "stage3"
    /\ url_removed = 1
    /\ hash_removed = 0
    /\ Len(listings) = 2

\* C3: after one pass of the fuzzy stage no two surviving listings with ids
\* outside the archived set have company similarity > 90 and role token
\* overlap > 0.8.
C3_NoFuzzyPairSurvives ==
    (pc = "finish" /\ Len(stages) = 3) =>
        \A a, b \in 1..Len(listings) :
            (/\ a # b
             /\ listings[a].id \notin archived_hashes
             /\ listings[b].id \notin archived_hashes)
            => ~(/\ SimilarCompanies(listings[a], listings[b])
                 /\ OverlappingRoles(listings[a], listings[b]))

C3_Witness ==
    /\ pc = "finish"
    /\ Len(stages) = 3
    /\ fuzzy_removed = 1
    /\ Len(listings) = 2
    /\ listings[1].id \notin archived_hashes
    /\ listings[2].id \notin archived_hashes
    /\ SimilarCompanies(listings[1], listings[2])

\* C4: in the hash stage and in the URL stage the survivor of every group
\* has the greatest date_added of the group, whatever the input order.
C4_SurvivorIsNewest ==
    /\ pc = "stage2" =>
          \A k \in 1..Len(listings) : \A l \in Members(db) :
              l.id = listings[k].id => l.date_added <= listings[k].date_added
    /\ pc = "stage3" =>
          \A k \in 1..Len(listings) : \A l \in Members(HashOutput(db)) :
              l.apply_url = listings[k].apply_url
                  => l.date_added <= listings[k].date_added

\* the newer listing of an id group comes first, the newer listing of a URL
\* group comes last
C4_Witness ==
    /\ pc = "stage3"
    /\ hash_removed = 1
    /\ url_removed = 1
    /\ db[1].id = db[2].id
    /\ db[1].date_added > db[2].date_added
    /\ db[3].apply_url = db[1].apply_url
    /\ db[3].date_added > db[1].date_added

\* C5: a listing whose id is archived takes part in no fuzzy comparison:
\* fuzz.ratio is never called on it, a removal is always made by a compared
\* pair of two non-archived listings, every archived listing of the stage's
\* input is in its output, and a two-listing input with one archived id is
\* returned whole with count 0.
C5_StateInv ==
    /\ pc = "fuzzy_loop" =>
          \A p \in fz.compared :
              /\ listings[p[1]].id \notin archived_hashes
              /\ listings[p[2]].id \notin archived_hashes
    /\ (pc = "finish" /\ Len(stages) = 3) =>
          /\ \A l \in Members(UrlOutput(db)) :
                l.id \in archived_hashes => l \in Members(listings)
          /\ (/\ Len(UrlOutput(db)) = 2
              /\ \E k \in 1..2 : UrlOutput(db)[k].id \in archived_hashes)
             => (listings = UrlOutput(db) /\ fuzzy_removed = 0)

C5_RemovalStep ==
    (pc = "fuzzy_loop" /\ fz'.removed_indices # fz.removed_indices) =>
        /\ listings[fz.i].id \notin archived_hashes
        /\ listings[fz.j].id \notin archived_hashes
        /\ <<fz.i, fz.j>> \in fz'.compared
        /\ (fz'.removed_indices \ fz.removed_indices) \subseteq {fz.i, fz.j}

C5_ArchivedExempt == [][C5_StateInv' /\ C5_RemovalStep]_vars

\* two listings with company similarity 100 and equal role tokens, exactly
\* one of them archived, both returned
C5_Witness ==
    /\ pc = "finish"
    /\ Len(stages) = 3
    /\ Len(UrlOutput(db)) = 2
    /\ fuzz_ratio(Lower(Chars[UrlOutput(db)[1].company]),
                  Lower(Chars[UrlOutput(db)[2].company])) = 100
    /\ TokenSet(UrlOutput(db)[1].role) = TokenSet(UrlOutput(db)[2].role)
    /\ UrlOutput(db)[1].id \in archived_hashes
    /\ UrlOutput(db)[2].id \notin archived_hashes
    /\ listings = UrlOutput(db)
    /\ fuzzy_removed = 0

\* C6: a comparison of i with j (i before j, both non-archived, neither
\* removed) that finds a fuzzy duplicate removes exactly one of the two: i
\* when date_added(j) >= date_added(i), otherwise j; the strictly newer one
\* is kept.
C6_ComparisonStep ==
    (/\ pc = "fuzzy_loop"
     /\ fz.j \in 1..Len(listings)
     /\ fz.i < fz.j
     /\ fz.i \notin fz.removed_indices
     /\ fz.j \notin fz.removed_indices
     /\ listings[fz.i].id \notin archived_hashes
     /\ listings[fz.j].id \notin archived_hashes
     /\ IsFuzzyDuplicate(listings[fz.i], listings[fz.j]))
    => LET di == listings[fz.i].date_added
           dj == listings[fz.j].date_added
       IN  /\ fz'.removed = fz.removed + 1
           /\ fz'.removed_indices =
                 fz.removed_indices \cup (IF dj >= di THEN {fz.i} ELSE {fz.j})
           /\ di > dj => fz.i \notin fz'.removed_indices
           /\ dj > di => fz.j \notin fz'.removed_indices

C6_OneOfPairRemoved == [][C6_ComparisonStep]_vars

\* i = 1 has removed the older j = 2 and was then removed by j = 3 of the
\* same date
C6_Witness ==
    /\ pc = "fuzzy_loop"
    /\ fz.removed = 2
    /\ fz.removed_indices = {1, 2}
    /\ <<1, 2>> \in fz.compared
    /\ <<1, 3>> \in fz.compared
    /\ listings[1].date_added > listings[2].date_added
    /\ listings[1].date_added = listings[3].date_added

\* C7: deduplicate_all calls the hash stage, the URL stage and the fuzzy
\* stage once each, in that order, each on the output of the stage before.
C7_StagesInOrder ==
    /\ \E n \in 0..3 : stages = SubSeq(<<"hash", "url", "fuzzy">>, 1, n)
    /\ pc = "stage1" => stages = <<>>
    /\ pc = "stage2" =>
          /\ stages = <<"hash">>
          /\ listings = dedup_by_content_hash(db).out
    /\ pc = "stage3" =>
          /\ stages = <<"hash", "url">>
          /\ listings = dedup_by_url(dedup_by_content_hash(db).out).out
    /\ pc = "fuzzy_loop" =>
          /\ stages = <<"hash", "url", "fuzzy">>
          /\ listings = dedup_by_url(dedup_by_content_hash(db).out).out
    /\ pc = "finish" =>
          /\ stages = <<"hash", "url", "fuzzy">>
          /\ listings =
                dedup_fuzzy(dedup_by_url(dedup_by_content_hash(db).out).out,
                            archived_hashes).out
    /\ (pc = "done" /\ Len(db) > 0) => stages = <<"hash", "url", "fuzzy">>

C7_Witness ==
    /\ pc = "done"
    /\ stages = <<"hash", "url", "fuzzy">>
    /\ hash_removed = 1
    /\ url_removed = 1

\* C8 as stated: the orchestrator returns the surviving list and the three
\* individual counts.
C8_ReturnsListAndCounts ==
    (pc = "done" /\ Len(stages) = 3) =>
        {"listings", "hash_removed", "url_removed", "fuzzy_removed"}
            \subseteq DOMAIN ret

\* C8 amended: deduplicate_all returns the total hash + url + fuzzy and
\* nothing else; the surviving list is what it wrote to jobs.json and the
\* three counts are the arguments of its last log call.
C8_ReturnsTotalOnly ==
    (pc = "done" /\ Len(stages) = 3) =>
        /\ DOMAIN ret = {"total_removed"}
        /\ ret.total_removed = hash_removed + url_removed + fuzzy_removed
        /\ logline = <<hash_removed, url_removed, fuzzy_removed,
                       hash_removed + url_removed + fuzzy_removed>>
        /\ load_database(jobsFile) = listings

C8_Witness ==
    /\ pc = "done"
    /\ Len(stages) = 3
    /\ hash_removed = 1
    /\ url_removed = 0
    /\ fuzzy_removed = 1
    /\ ret.total_removed = 2

\* C9: with an empty listing collection deduplicate_all returns 0 straight
\* after loading jobs.json: no stage is called, archived.json is not touched,
\* jobs.json is not written and nothing is logged.
C9_EmptyStep ==
    (pc = "load_database" /\ load_database(jobsFile) = <<>>) =>
        /\ pc' = "done"
        /\ ret'.total_removed = 0
        /\ stages' = <<>>
        /\ logline' = <<>>
        /\ hash_removed' = 0 /\ url_removed' = 0 /\ fuzzy_removed' = 0
        /\ jobsFile' = jobsFile
        /\ archivedFile' = archivedFile
        /\ \A k \in 1..Len(io') :
              io'[k] \in {"exists jobs.json", "read jobs.json"}

C9_EmptyReturnsAtOnce == [][C9_EmptyStep]_vars

C9_Witness ==
    /\ pc = "done"
    /\ jobsFile.exists
    /\ "listings" \in DOMAIN jobsFile.raw
    /\ Len(jobsFile.raw.listings) = 0
    /\ ret.total_removed = 0
    /\ stages = <<>>
    /\ io = <<"exists jobs.json", "read jobs.json">>

\* the input of the end-to-end scenario of section 8
Scenario ==
    << Listing(h1, "Stripe Inc", "SWE Intern", u1, 1),
       Listing(h1, "Stripe Inc", "SWE Intern", u2, 32),
       Listing(h2, "Stripe Inc.", "SWE Intern", u3, 15) >>

\* C10: on the scenario input with no archived ids the hash stage removes 1
\* and keeps the 2026-02-01 copy of h1, the URL stage removes 0, the fuzzy
\* stage removes h2; one listing is left and the counts are 1, 0, 1.
C10_EndToEnd ==
    (db = Scenario /\ archived_hashes = {}) =>
        /\ pc = "stage2" =>
              /\ hash_removed = 1
              /\ listings = <<Scenario[2], Scenario[3]>>
        /\ pc = "stage3" =>
              /\ url_removed = 0
              /\ listings = <<Scenario[2], Scenario[3]>>
        /\ pc = "finish" =>
              /\ listings = <<Scenario[2]>>
              /\ hash_removed = 1 /\ url_removed = 0 /\ fuzzy_removed = 1

C10_Witness ==
    /\ pc = "finish"
    /\ db = Scenario
    /\ archived_hashes = {}
    /\ Len(listings) = 1
    /\ fuzzy_removed = 1

\* C11: the hash stage is idempotent: run again on its own output it removes
\* nothing and returns the same list.
C11_HashIdempotent ==
    pc = "stage2" =>
        /\ dedup_by_content_hash(listings).removed = 0
        /\ dedup_by_content_hash(listings).out = listings

\* the first run removed two listings and replaced the first by a newer one
C11_Witness ==
    /\ pc = "stage2"
    /\ hash_removed = 2
    /\ db[2].date_added > db[1].date_added
    /\ listings = <<db[2]>>

\* the lowercased whitespace-separated tokens of a title, as a set
LowercasedTokens(title) ==
    LET toks == Split(Lower(Chars[title]))
    IN  {toks[k] : k \in 1..Len(toks)}

\* C12: the token-overlap scorer returns |A n B| / |A u B| for the sets A, B
\* of lowercased whitespace-separated tokens, a value in [0, 1]; exactly 0
\* when both sets are empty or exactly one is, 1 exactly when the sets are
\* equal and non-empty, and the same value for titles that differ in letter
\* case only.
C12_TokenOverlap ==
    overlap # <<>> =>
        LET ov == overlap[1]
            A == LowercasedTokens(title_a)
            B == LowercasedTokens(title_b)
        IN  /\ ov.den > 0
            /\ 0 <= ov.num /\ ov.num <= ov.den
            /\ (A \cup B # {}) =>
                  ov.num * Cardinality(A \cup B) = Cardinality(A \cap B) * ov.den
            /\ (A = {} /\ B = {}) => ov.num = 0
            /\ ((A = {}) # (B = {})) => ov.num = 0
            /\ (ov.num = ov.den) <=> (A = B /\ A # {})
            /\ \A t \in Titles :
                  Lower(Chars[t]) = Lower(Chars[title_a])
                      => compute_token_overlap(t, title_b) = ov

\* capital letters outside ASCII on one side, small ones on the other,
\* score 1.0
C12_Witness ==
    /\ overlap = <<[num |-> 2, den |-> 2]>>
    /\ title_a = "R\\xc9SUM\\xc9 Intern"
    /\ title_b = "r\\xe9sum\\xe9 intern"

\* a listing of ls other than ls[k] that is a fuzzy duplicate of ls[k], both
\* with ids outside the archived set
HasFuzzyPartner(ls, k, archived) ==
    /\ ls[k].id \notin archived
    /\ \E m \in 1..Len(ls) :
          /\ m # k
          /\ ls[m].id \notin archived
          /\ SimilarCompanies(ls[k], ls[m])
          /\ OverlappingRoles(ls[k], ls[m])

\* C13: the fuzzy stage removes a listing only if its input holds another
\* listing, both ids outside the archived set, with company similarity > 90
\* and role token overlap > 0.8; a pair that fails either test survives
\* whole, and an input of at most one listing is returned unchanged with
\* count 0.
C13_RemovesOnlyDuplicates ==
    /\ pc = "fuzzy_loop" =>
          \A k \in fz.removed_indices :
              HasFuzzyPartner(listings, k, archived_hashes)
    /\ (pc = "finish" /\ Len(stages) = 3) =>
          LET inp == UrlOutput(db)
          IN  /\ \A k \in 1..Len(inp) :
                    inp[k] \notin Members(listings)
                        => HasFuzzyPartner(inp, k, archived_hashes)
              /\ Len(inp) <= 1 => (listings = inp /\ fuzzy_removed = 0)
              /\ (/\ Len(inp) = 2
                  /\ \/ ~SimilarCompanies(inp[1], inp[2])
                     \/ TokenSet(inp[1].role) \cap TokenSet(inp[2].role) = {})
                 => (listings = inp /\ fuzzy_removed = 0)

\* one listing removed, and two survivors of similar company whose roles do
\* not overlap enough
C13_Witness ==
    /\ pc = "finish"
    /\ Len(stages) = 3
    /\ fuzzy_removed = 1
    /\ Len(listings) = 2
    /\ listings[1].id \notin archived_hashes
    /\ listings[2].id \notin archived_hashes
    /\ SimilarCompanies(listings[1], listings[2])
    /\ ~OverlappingRoles(listings[1], listings[2])

\* the accounting of each stage, on the state it leaves
C14_StateInv ==
    /\ hash_removed >= 0 /\ url_removed >= 0 /\ fuzzy_removed >= 0
    /\ pc = "stage2" => Len(listings) + hash_removed = Len(db)
    /\ pc = "stage3" => Len(listings) + url_removed = Len(HashOutput(db))
    /\ pc = "fuzzy_loop" =>
          /\ fz.removed = Cardinality(fz.removed_indices)
          /\ fz.removed_indices \subseteq 1..Len(listings)
    /\ (pc = "finish" /\ Len(stages) = 3) =>
          Len(listings) + fuzzy_removed = Len(UrlOutput(db))

\* the step that persists: the total is loaded minus persisted
C14_FinishStep ==
    (pc = "finish" /\ pc' = "done") =>
        /\ db = load_database(jobsFile)
        /\ ret'.total_removed = Len(db) - Len(jobsFile'.raw.listings)
        /\ ret'.total_removed = hash_removed + url_removed + fuzzy_removed

\* C14: for each of the three stages len(output) + removed = len(input) with
\* removed >= 0, no listing is counted twice, and the total the orchestrator
\* returns is the number of loaded listings minus the number persisted.
C14_Accounting == [][C14_StateInv' /\ C14_FinishStep]_vars

\* three listings loaded, two removed (one of them by the fuzzy stage), one
\* persisted
C14_Witness ==
    /\ pc = "done"
    /\ ret.total_removed = 2
    /\ hash_removed + url_removed + fuzzy_removed = 2
    /\ fuzzy_removed = 1
    /\ Len(jobsFile.raw.listings) = 1

\* archived.json is missing, is the object {}, has no "listings" key, or
\* has an empty "listings" array
ArchiveMissingOrEmpty ==
    archivedFile \in { MissingFile, EmptyObjectFile, NoListingsKeyFile,
                       [exists |-> TRUE, raw |-> [listings |-> <<>>]] }

\* C15: with a missing or empty archive the archived-id loader yields the
\* empty set, the dedup pass goes through its statements to the return of
\* the total (it never raises), and the fuzzy stage exempts nothing: every
\* pair of listings it leaves was compared.
C15_MissingArchiveNoError ==
    ArchiveMissingOrEmpty =>
        /\ load_archived_hashes(archivedFile) = {}
        /\ pc \in {"stage1", "stage2", "stage3", "fuzzy_loop", "finish"}
              => archived_hashes = {}
        /\ pc \in {"load_database", "load_archived_hashes", "stage1", "stage2",
                   "stage3", "fuzzy_loop", "finish", "done"}
        /\ pc = "done" => DOMAIN ret = {"total_removed"}
        /\ (pc \in {"finish", "done"} /\ Len(stages) = 3) =>
              \A i, j \in 1..Len(UrlOutput(db)) :
                  i < j => \/ i \in fz.removed_indices
                           \/ j \in fz.removed_indices
                           \/ <<i, j>> \in fz.compared

\* no archived.json at all, and the pass ends having removed a fuzzy
\* duplicate
C15_Witness ==
    /\ archivedFile = MissingFile
    /\ pc = "done"
    /\ io = <<"exists jobs.json", "read jobs.json", "exists archived.json",
              "write jobs.json">>
    /\ fuzzy_removed = 1
    /\ ret.total_removed = 1

\* position of the first listing of d with the given id
FirstOccurrence(d, id) ==
    CHOOSE k \in 1..Len(d) :
        /\ d[k].id = id
        /\ \A m \in 1..(k - 1) : d[m].id # id

\* C19: the output of the hash stage has one record per distinct id, in the
\* order in which the ids first occur in the input, also when the survivor
\* of an id is a later occurrence.
C19_HashOutputOrder ==
    pc = "stage2" =>
        /\ Len(listings) = Cardinality(IdsOf(db))
        /\ \A a, b \in 1..Len(listings) :
              a < b => FirstOccurrence(db, listings[a].id)
                           < FirstOccurrence(db, listings[b].id)

\* the survivor of the first id is the third input listing, and it stands
\* before the second input listing
C19_Witness ==
    /\ pc = "stage2"
    /\ Len(db) = 3
    /\ db[3] # db[1]
    /\ listings = <<db[3], db[2]>>

\* one step of the fuzzy loop, from fz to fz'
C20_LoopStep ==
    (pc = "fuzzy_loop" /\ pc' = "fuzzy_loop") =>
        \* a listing marked removed takes part in no new comparison
        /\ \A p \in fz'.compared \ fz.compared :
              /\ p[1] \notin fz.removed_indices
              /\ p[2] \notin fz.removed_indices
        \* a removed listing is passed over as i
        /\ (fz.j = 0 /\ fz.i \in fz.removed_indices) =>
              (fz'.i = fz.i + 1 /\ fz'.j = 0 /\ fz'.compared = fz.compared)
        \* removing i ends the loop over j
        /\ (fz.j > 0 /\ fz.i \in fz'.removed_indices) =>
              (fz'.i = fz.i + 1 /\ fz'.j = 0)
        \* removing j does not: the same i goes on with the next j
        /\ (fz.j > 0 /\ fz.j \in fz'.removed_indices \ fz.removed_indices) =>
              (fz'.i = fz.i /\ fz'.j = fz.j + 1)
        \* and i is compared with every later j not removed and not archived
        /\ (/\ fz.j > 0 /\ fz.j <= Len(listings)
            /\ fz.j \notin fz.removed_indices
            /\ listings[fz.j].id \notin archived_hashes) =>
              <<fz.i, fz.j>> \in fz'.compared

\* C20: in the fuzzy stage a listing marked removed takes part in no further
\* comparison (a removed i is compared with no further j, a removed j is
\* passed over as later i and as later j), whereas after a j is removed the
\* current i goes on being compared with every later j that is neither
\* removed nor archived.
C20_StopVersusContinue == [][C20_LoopStep]_vars

\* the first listing has removed the second and then the third
C20_Witness ==
    /\ pc = "fuzzy_loop"
    /\ fz.i = 1
    /\ fz.removed_indices = {2, 3}
    /\ fz.compared = {<<1, 2>>, <<1, 3>>}

\* the six step functions in the order of the claim
SixSteps ==
    << "discover_all", "validate_all", "deduplicate_all", "check_all_links",
       "archive_stale", "generate_readme" >>

\* the steps whose call has ended
Ended == 1..Len(outcomes)

\* the steps are attempted in the order of the list, and only the running
\* step has no outcome yet
AttemptedInOrder ==
    /\ Len(attempted) <= 6
    /\ attempted = SubSeq(SixSteps, 1, Len(attempted))
    /\ Len(outcomes) = Len(attempted) - (IF awaited = 0 THEN 0 ELSE 1)

\* C16 as stated: in run_full_pipeline a step that raises an exception,
\* whichever it is, is reported as failed and does not stop the pipeline:
\* the six steps discover, validate, deduplicate, check links, archive,
\* readme are each attempted once, in that order, whatever the earlier
\* steps did.
C16_ErrorIsolation ==
    pipeline_pc # "idle" =>
        /\ pipeline_pc \in {"steps", "done"}
        /\ AttemptedInOrder
        /\ \A k \in Ended :
              outcomes[k] # "returns" =>
                  /\ k <= Len(step_log)
                  /\ step_log[k] = <<"Step failed", steps[k].name>>
        /\ failed = Cardinality({k \in Ended : outcomes[k] # "returns"})
        /\ succeeded + failed = Len(outcomes)
        /\ pipeline_pc = "steps" => step_index = Len(outcomes) + 1
        /\ pipeline_pc = "done" => (attempted = SixSteps /\ Len(outcomes) = 6)

\* C16, amended: in run_full_pipeline a step that raises an exception
\* derived from Exception is reported as failed and does not stop the
\* pipeline: as long as no step raises another BaseException, the six steps
\* are each attempted once, in that order, whatever the earlier steps did.
\* A BaseException that is not an Exception (KeyboardInterrupt, SystemExit,
\* asyncio.CancelledError) is not caught: the step is neither logged nor
\* counted as failed, run_full_pipeline ends with it, and the steps after it
\* are not attempted.
C16_ExceptionIsolation ==
    pipeline_pc # "idle" =>
        /\ pipeline_pc \in {"steps", "done", "raised"}
        /\ AttemptedInOrder
        /\ \A k \in Ended :
              /\ outcomes[k] = "raises" =>
                    /\ k <= Len(step_log)
                    /\ step_log[k] = <<"Step failed", steps[k].name>>
              /\ outcomes[k] = "returns" =>
                    /\ k <= Len(step_log)
                    /\ step_log[k] = <<"Completed step", steps[k].name>>
              /\ outcomes[k] = "raises_base" =>
                    /\ k = Len(outcomes)
                    /\ Len(step_log) = k - 1
                    /\ Len(attempted) = k
                    /\ pipeline_pc = "raised"
        /\ failed = Cardinality({k \in Ended : outcomes[k] = "raises"})
        /\ succeeded = Cardinality({k \in Ended : outcomes[k] = "returns"})
        /\ pipeline_pc = "steps" => step_index = Len(outcomes) + 1
        /\ pipeline_pc = "done" => (attempted = SixSteps /\ Len(outcomes) = 6)
        /\ pipeline_pc = "raised" =>
              /\ Len(outcomes) > 0
              /\ outcomes[Len(outcomes)] = "raises_base"
              /\ running = {}

\* the first and the third step raised an Exception and all six steps were
\* attempted
C16_Witness ==
    /\ pipeline_pc = "done"
    /\ outcomes = <<"raises", "returns", "raises", "returns", "returns",
                    "returns">>
    /\ attempted = SixSteps
    /\ failed = 2

\* the link-check requests in flight
InFlight == {t \in 1..Len(tasks) : task_state[t] = "in_flight"}

\* C18: during check_all_links never more than MAX_CONCURRENT (10) requests
\* are in flight, however many listings are open, and in a run every open
\* listing is checked exactly once (and no other listing is checked).
C18_ConcurrencyBound ==
    link_pc = "gather" =>
        /\ Cardinality(InFlight) <= 10
        /\ Cardinality(InFlight) <= MAX_CONCURRENT
        /\ \A k \in 1..Len(link_db) :
              /\ requests[k] <= 1
              /\ link_db[k].status # "open" => requests[k] = 0
        /\ (\A t \in 1..Len(tasks) : task_state[t] = "done") =>
              \A k \in 1..Len(link_db) :
                  link_db[k].status = "open" => requests[k] = 1

\* ten requests in flight, one of them of the eleventh open listing, which
\* had to wait for its slot
C18_Witness ==
    /\ link_pc = "gather"
    /\ Cardinality(InFlight) = MAX_CONCURRENT
    /\ semaphore = 0
    /\ \E t \in InFlight : t > MAX_CONCURRENT

\* result_type of the check of listing k in the run that is ending
ResultNow(k) ==
    IF \E t \in 1..Len(tasks) : tasks[t].pos = k
    THEN results[CHOOSE t \in 1..Len(tasks) : tasks[t].pos = k].result_type
    ELSE "none"

\* the step that ends a run, for every listing that was open in it
C17_RunStep ==
    (link_pc = "gather" /\ link_pc' = "idle") =>
        \A k \in 1..Len(link_db) :
            link_db[k].status = "open" =>
                \* closed only by a dead result that follows a dead result of
                \* the run before
                /\ link_db'[k].status = "closed" =>
                      (ResultNow(k) = "dead" /\ last_result[k] = "dead")
                \* a dead result that does not follow a dead one leaves the
                \* listing open with consecutive_failures = 1
                /\ (ResultNow(k) = "dead" /\ last_result[k] # "dead") =>
                      /\ link_db'[k].status = "open"
                      /\ health'[link_db[k].id] = 1
                \* a healthy result resets the counter
                /\ (ResultNow(k) = "healthy"
                    /\ link_db[k].id \in DOMAIN health') =>
                      health'[link_db[k].id] = 0
                \* other results never close
                /\ ResultNow(k) \in {"transient", "unknown", "error"} =>
                      link_db'[k].status = "open"

\* C17: across any sequence of check_all_links runs an open listing is
\* marked closed only after it failed two consecutive checks in two
\* separate runs (dead status 404, 410 or 403): a first dead result leaves it
\* open with consecutive_failures = 1, a healthy result resets
\* consecutive_failures to 0, and transient, unknown and network-error
\* results never close a listing.
C17_ClosedAfterTwoConsecutiveDead == [][C17_RunStep]_vars

\* the archived-id sets the archived.json variants give
ArchivedSets == {load_archived_hashes(f) : f \in ArchivedFiles}

\* a set S of three or more positions of ls whose listings are non-archived
\* and pairwise fuzzy duplicates of each other
MutualCluster(ls, S, archived) ==
    /\ S \subseteq 1..Len(ls)
    /\ Cardinality(S) >= 3
    /\ \A a \in S : ls[a].id \notin archived
    /\ \A a, b \in S :
          a # b => /\ SimilarCompanies(ls[a], ls[b])
                   /\ OverlappingRoles(ls[a], ls[b])

\* the fuzzy loop is over and _dedup_fuzzy has not built its result yet:
\* `listings` is still the stage's input
FuzzyLoopOver ==
    /\ pc = "fuzzy_loop"
    /\ fz.j = 0
    /\ fz.i > Len(listings)

\* C21 as stated: some input with a cluster of three or more non-archived,
\* pairwise fuzzy-duplicate listings leaves more than one member of the
\* cluster in the output of one _dedup_fuzzy pass.
C21_ClusterLeavesSeveral ==
    \E ls \in SeqsUpTo(ListingPool, MaxLen) : \E archived \in ArchivedSets :
        \E S \in SUBSET (1..Len(ls)) :
            /\ MutualCluster(ls, S, archived)
            /\ Len(ls) > 1
            /\ Cardinality(S \ FuzzyLoop(ls, archived, FuzzyStart).removed_indices)
                  > 1

\* C21, amended: one pass of the fuzzy stage leaves at most one member of
\* every cluster of three or more non-archived, pairwise fuzzy-duplicate
\* listings.
C21_ClusterCollapses ==
    FuzzyLoopOver =>
        \A S \in SUBSET (1..Len(listings)) :
            MutualCluster(listings, S, archived_hashes)
                => Cardinality(S \ fz.removed_indices) <= 1

\* a cluster of three of which the first, the newest, removed the other two
C21_Witness ==
    /\ FuzzyLoopOver
    /\ MutualCluster(listings, {1, 2, 3}, archived_hashes)
    /\ fz.removed_indices = {2, 3}

\* every ordering of the listings of ls
Orderings(ls) ==
    LET n == Len(ls)
        perms == {p \in [1..n -> 1..n] : \A a, b \in 1..n : a # b => p[a] # p[b]}
    IN  {[k \in 1..n |-> ls[p[k]]] : p \in perms}

\* the set of listings _dedup_fuzzy returns
FuzzySurvivors(ls, archived) == Members(dedup_fuzzy(ls, archived).out)

FuzzyPair(x, y) == SimilarCompanies(x, y) /\ OverlappingRoles(x, y)

\* ls is three non-archived listings x ~ y ~ z with x and z no duplicates,
\* and y, the listing in the middle of the chain, is by date_added neither
\* strictly the newest nor strictly the oldest of the three
BrokenChain(ls, archived) ==
    /\ Len(ls) = 3
    /\ \A k \in 1..3 : ls[k].id \notin archived
    /\ \E x, y, z \in 1..3 :
          /\ x # y /\ y # z /\ x # z
          /\ FuzzyPair(ls[x], ls[y])
          /\ FuzzyPair(ls[y], ls[z])
          /\ ~FuzzyPair(ls[x], ls[z])
          /\ ~(/\ ls[y].date_added > ls[x].date_added
               /\ ls[y].date_added > ls[z].date_added)
          /\ ~(/\ ls[y].date_added < ls[x].date_added
               /\ ls[y].date_added < ls[z].date_added)

\* C22: the fuzzy stage depends on the order of its input: when the stage
\* has run on a non-transitive chain A~B, B~C, not A~C, some other ordering
\* of the same listings with the same archived ids gives a different set of
\* survivors.
C22_OrderDependent ==
    (FuzzyLoopOver /\ BrokenChain(listings, archived_hashes)) =>
        \E other \in Orderings(listings) :
            FuzzySurvivors(other, archived_hashes)
                # Members(FuzzyResult(listings, fz.removed_indices))

\* the chain in the order A, B, C leaves C alone; in the order B, C, A it
\* leaves A and C
C22_Witness ==
    /\ FuzzyLoopOver
    /\ BrokenChain(listings, archived_hashes)
    /\ FuzzyPair(listings[1], listings[2])
    /\ FuzzyPair(listings[2], listings[3])
    /\ fz.removed_indices = {1, 2}
    /\ FuzzySurvivors(<<listings[2], listings[3], listings[1]>>, archived_hashes)
          = {listings[1], listings[3]}

\* the statements of deduplicate_all between the two loads and the save
Computing == pc \in {"stage1", "stage2", "stage3", "fuzzy_loop", "finish"}

\* the file accesses of the two loads of a pass over a non-empty jobs.json
ReadsOfPass ==
    <<"exists jobs.json", "read jobs.json">>
        \o load_archived_hashes_io(archivedFile)

C23_StateInv ==
    /\ pc = "load_archived_hashes" =>
          io = <<"exists jobs.json", "read jobs.json">>
    /\ Computing => (io = ReadsOfPass /\ Len(db) > 0)
    /\ (pc = "done" /\ stages # <<>>) =>
          /\ stages = <<"hash", "url", "fuzzy">>
          /\ io = Append(ReadsOfPass, "write jobs.json")
          /\ jobsFile = save_database(listings)

C23_PassStep ==
    /\ (Computing /\ pc # "finish") =>
          /\ io' = io
          /\ jobsFile' = jobsFile
          /\ archivedFile' = archivedFile
    /\ pc = "finish" =>
          /\ pc' = "done"
          /\ io' = Append(io, "write jobs.json")
          /\ jobsFile' = save_database(listings)
          /\ archivedFile' = archivedFile

\* C23: a pass over a non-empty collection reads jobs.json, then
\* archived.json, then runs the three stages without touching a file, then
\* writes jobs.json exactly once, also when no listing was removed.
C23_ReadComputeWrite == [][C23_StateInv' /\ C23_PassStep]_vars

\* a finished pass that removed nothing and still wrote jobs.json
C23_Witness ==
    /\ pc = "done"
    /\ stages = <<"hash", "url", "fuzzy">>
    /\ ret.total_removed = 0
    /\ Len(db) = 2
    /\ io[Len(io)] = "write jobs.json"
    /\ jobsFile = save_database(db)

DedupStep == CHOOSE s \in 1..Len(steps) : steps[s].func = "deduplicate_all"

\* step s has loaded jobs.json and has neither saved it nor ended
BetweenLoadAndSave(s) == s \in running /\ step_io[s].phase = "loaded"

C24_StateInv ==
    /\ Cardinality(running) <= 1
    /\ running # {} => (running = {step_index} /\ awaited = step_index)
    /\ \A s \in 1..Len(steps) : s \notin running => step_io[s] = NoAccess

\* the step in which the outside writer w saves jobs.json
OutsideSaveOf(w) ==
    /\ outside_io[w].phase = "loaded"
    /\ outside_io'[w].phase # "loaded"
    /\ store' = w

\* the step in which the listings the step function s holds stop being the
\* content of jobs.json
BecomesStale(s) == ~step_io[s].stale /\ step_io'[s].stale

\* a step function is called only when none is running, and no step
\* touches jobs.json while another is between its load and its save
C24_SerialStep ==
    /\ (running' \ running # {}) => running = {}
    /\ \A s, t \in 1..Len(steps) :
          (step_io'[s].phase # step_io[s].phase /\ BetweenLoadAndSave(t))
              => s = t

\* the listings a step function holds stop being the file's content only
\* by the save of a function run outside the run, in a step in which no
\* step function of the run starts, ends or touches the file
C24_StaleOnlyAfterOutsideSave ==
    \A s \in 1..Len(steps) :
        BecomesStale(s) =>
            /\ running' = running
            /\ \A t \in 1..Len(steps) : step_io'[t].phase = step_io[t].phase
            /\ \E w \in OutsideWriters : OutsideSaveOf(w)

\* C24: run_full_pipeline serializes its steps: a step function is called
\* only when no other is running, the async discover and link-check steps
\* included, so while a step (the dedup step among them) is between its load
\* and its save of jobs.json no other step reads or writes the file, and no
\* update to the store is lost to a concurrent step: what a step holds is
\* made stale by no step of the run, only by a function that another
\* process runs, which the code leaves to the callers' discipline.
C24_StepsSerialized ==
    [][C24_StateInv' /\ C24_SerialStep /\ C24_StaleOnlyAfterOutsideSave]_vars

\* the discover and validate steps have ended; the dedup step, alone at
\* work, has loaded jobs.json and saved it from the content the file had
C24_Witness ==
    /\ running = {DedupStep}
    /\ Len(outcomes) = 2
    /\ step_io[DedupStep] = [phase |-> "saved", stale |-> FALSE]
    /\ store = "deduplicate_all"
    /\ OutsideActive = {}

\* how many times the record r occurs in the list ls
Occurrences(ls, r) == Cardinality({k \in 1..Len(ls) : ls[k] = r})

\* every record of `out` is a record of `inp`, all fields equal, and occurs
\* in `out` at most as often as in `inp`
SubMultiset(out, inp) ==
    \A k \in 1..Len(out) : Occurrences(out, out[k]) <= Occurrences(inp, out[k])

C25_StateInv ==
    /\ pc = "stage2" => SubMultiset(listings, db)
    /\ pc = "stage3" => SubMultiset(listings, HashOutput(db))
    /\ (pc = "finish" /\ Len(stages) = 3) =>
          /\ SubMultiset(listings, UrlOutput(db))
          /\ SubMultiset(listings, db)
    /\ \A k \in 1..Len(io) : io[k] # "write archived.json"
    /\ (pc = "done" /\ stages # <<>>) => jobsFile = save_database(listings)

C25_FrameStep ==
    /\ archivedFile' = archivedFile
    /\ jobsFile' # jobsFile => (pc = "finish" /\ jobsFile' = save_database(listings))

\* C25: the stages only filter: the output of each stage is a sub-multiset
\* of its input with every field as it was, the removed listings are
\* written to no file, and archived.json is never written.
C25_StagesOnlyFilter == [][C25_StateInv' /\ C25_FrameStep]_vars

\* a pass in which the hash stage and the URL stage each removed a listing,
\* with an archived.json that has listings
C25_Witness ==
    /\ pc = "done"
    /\ hash_removed = 1
    /\ url_removed = 1
    /\ Len(jobsFile.raw.listings) = 1
    /\ archivedFile.exists
    /\ archived_hashes # {}

\* the listings the URL stage received from the hash stage and did not return
RemovedByUrlStage == Members(HashOutput(db)) \ Members(listings)

\* C26: in the orchestrated pass the URL stage works on the hash stage's
\* output, so every listing it removes differs in id from the surviving
\* listing that has its apply_url: it only catches cross-hash duplicates.
C26_UrlStageCrossHashOnly ==
    pc = "stage3" =>
        /\ url_removed = Len(HashOutput(db)) - Len(listings)
        /\ Cardinality(RemovedByUrlStage) = url_removed
        /\ \A r \in RemovedByUrlStage :
              /\ \E s \in Members(listings) : s.apply_url = r.apply_url
              /\ \A s \in Members(listings) :
                    s.apply_url = r.apply_url => s.id # r.id

\* the hash stage removed the older copy of an id, then the URL stage
\* removed a listing of another id that shares the survivor's URL
C26_Witness ==
    /\ pc = "stage3"
    /\ hash_removed = 1
    /\ url_removed = 1
    /\ Len(listings) = 1
    /\ \E r \in RemovedByUrlStage :
          /\ r.apply_url = listings[1].apply_url
          /\ r.id # listings[1].id

\* the position in ls of the member of the id group `id` that is first among
\* the members with the greatest date_added
EarliestNewestById(ls, id) ==
    CHOOSE k \in 1..Len(ls) :
        /\ ls[k].id = id
        /\ \A m \in 1..Len(ls) :
              ls[m].id = id =>
                  \/ ls[m].date_added < ls[k].date_added
                  \/ (ls[m].date_added = ls[k].date_added /\ m >= k)

EarliestNewestByUrl(ls, url) ==
    CHOOSE k \in 1..Len(ls) :
        /\ ls[k].apply_url = url
        /\ \A m \in 1..Len(ls) :
              ls[m].apply_url = url =>
                  \/ ls[m].date_added < ls[k].date_added
                  \/ (ls[m].date_added = ls[k].date_added /\ m >= k)

\* positions a < b of ls hold non-archived fuzzy duplicates of equal date
TiedFuzzyPair(ls, a, b, archived) ==
    /\ a < b
    /\ ls[a].id \notin archived
    /\ ls[b].id \notin archived
    /\ FuzzyPair(ls[a], ls[b])
    /\ ls[a].date_added = ls[b].date_added

\* no third non-archived listing of ls is a fuzzy duplicate of ls[a] or ls[b]
NoFurtherDuplicate(ls, a, b, archived) ==
    \A c \in 1..Len(ls) :
        (c # a /\ c # b /\ ls[c].id \notin archived)
            => (~FuzzyPair(ls[a], ls[c]) /\ ~FuzzyPair(ls[b], ls[c]))

\* C27 as stated: of any two duplicates with the same date_added exactly one
\* survives the stage: the earlier-positioned one in the hash stage and in
\* the URL stage, the later-positioned one in the fuzzy stage.
C27_ExactlyOneOfEveryTie ==
    /\ pc = "stage2" =>
          \A a, b \in 1..Len(db) :
              (a < b /\ db[a].id = db[b].id
                     /\ db[a].date_added = db[b].date_added)
              => (db[a] \in Members(listings)
                  /\ (db[b] # db[a] => db[b] \notin Members(listings)))
    /\ pc = "stage3" =>
          \A a, b \in 1..Len(HashOutput(db)) :
              (a < b /\ HashOutput(db)[a].apply_url = HashOutput(db)[b].apply_url
                     /\ HashOutput(db)[a].date_added = HashOutput(db)[b].date_added)
              => (HashOutput(db)[a] \in Members(listings)
                  /\ HashOutput(db)[b] \notin Members(listings))
    /\ FuzzyLoopOver =>
          \A a, b \in 1..Len(listings) :
              TiedFuzzyPair(listings, a, b, archived_hashes)
                  => (a \in fz.removed_indices /\ b \notin fz.removed_indices)

C27_StateInv ==
    /\ pc = "stage2" =>
          /\ Len(listings) = Cardinality(IdsOf(db))
          /\ \A k \in 1..Len(listings) :
                listings[k] = db[EarliestNewestById(db, listings[k].id)]
    /\ pc = "stage3" =>
          /\ Len(listings) = Cardinality(UrlsOf(HashOutput(db)))
          /\ \A k \in 1..Len(listings) :
                listings[k] =
                    HashOutput(db)[EarliestNewestByUrl(HashOutput(db),
                                                       listings[k].apply_url)]
    /\ FuzzyLoopOver =>
          \A a, b \in 1..Len(listings) :
              TiedFuzzyPair(listings, a, b, archived_hashes) =>
                  /\ ~(a \notin fz.removed_indices /\ b \notin fz.removed_indices)
                  /\ NoFurtherDuplicate(listings, a, b, archived_hashes)
                        => (a \in fz.removed_indices
                            /\ b \notin fz.removed_indices)

\* C27, amended: with equal dates each id group and each URL group keeps
\* exactly one member, the earliest-positioned of its newest; a fuzzy
\* comparison of two equal-date duplicates removes the earlier listing i and
\* keeps the later listing j, never both, and j is the one left by the stage
\* when neither has a further duplicate.
C27_TieBreak ==
    /\ C27_StateInv
    /\ (pc = "fuzzy_loop" /\ fz.j = 0 /\ fz.i > 1) =>
          \A b \in 1..Len(listings) :
              (/\ <<fz.i - 1, b>> \in fz.compared
               /\ TiedFuzzyPair(listings, fz.i - 1, b, archived_hashes))
              => /\ fz.i - 1 \in fz.removed_indices
                 /\ b \notin fz.removed_indices

\* the hash stage kept the first of two equal-date copies of an id, then the
\* fuzzy stage removed the first of two equal-date duplicates
C27_Witness ==
    /\ FuzzyLoopOver
    /\ hash_removed = 1
    /\ db[1].id = db[2].id
    /\ db[1].date_added = db[2].date_added
    /\ listings = <<db[1], db[3]>>
    /\ TiedFuzzyPair(listings, 1, 2, archived_hashes)
    /\ fz.removed_indices = {1}

DistinctIds(ls) ==
    \A a, b \in 1..Len(ls) : a # b => ls[a].id # ls[b].id

DistinctUrls(ls) ==
    \A a, b \in 1..Len(ls) : a # b => ls[a].apply_url # ls[b].apply_url

NoFuzzyPair(ls, archived) ==
    \A a, b \in 1..Len(ls) :
        (a # b /\ ls[a].id \notin archived /\ ls[b].id \notin archived)
            => ~FuzzyPair(ls[a], ls[b])

\* C28: the list deduplicate_all writes to jobs.json has pairwise distinct
\* ids, pairwise distinct apply_urls and no pair of non-archived fuzzy
\* duplicates; the URL stage keeps the ids distinct and the fuzzy stage
\* keeps ids and apply_urls distinct.
C28_AllStageInvariants ==
    /\ pc = "stage3" => DistinctIds(listings)
    /\ (pc = "finish" /\ Len(stages) = 3) =>
          (DistinctIds(listings) /\ DistinctUrls(listings))
    /\ (pc = "done" /\ stages # <<>>) =>
          /\ DistinctIds(jobsFile.raw.listings)
          /\ DistinctUrls(jobsFile.raw.listings)
          /\ NoFuzzyPair(jobsFile.raw.listings, archived_hashes)

\* jobs.json was written with the two listings the fuzzy stage left of three
C28_Witness ==
    /\ pc = "done"
    /\ fuzzy_removed = 1
    /\ Len(jobsFile.raw.listings) = 2
    /\ io[Len(io)] = "write jobs.json"

\* the three stages as deduplicate_all chains them (lines 298-304), run on
\* the list ls: the final list and the three counts
ThreeStages(ls, archived) ==
    LET r1 == dedup_by_content_hash(ls)
        r2 == dedup_by_url(r1.out)
        r3 == dedup_fuzzy(r2.out, archived)
    IN  [out |-> r3.out,
         hash_removed |-> r1.removed,
         url_removed |-> r2.removed,
         fuzzy_removed |-> r3.removed]

\* C29: the three stages run again on the output of a completed pass, with
\* the same archived ids, remove nothing and return the same list in the
\* same order.
C29_PassIdempotent ==
    (pc = "finish" /\ Len(stages) = 3) =>
        ThreeStages(listings, archived_hashes) =
            [out |-> listings, hash_removed |-> 0, url_removed |-> 0,
             fuzzy_removed |-> 0]

\* the first pass removed a listing in the URL stage and one in the fuzzy
\* stage
C29_Witness ==
    /\ pc = "finish"
    /\ Len(stages) = 3
    /\ url_removed = 1
    /\ fuzzy_removed = 1
    /\ ThreeStages(db, archived_hashes).out = listings
    /\ ThreeStages(listings, archived_hashes).out = listings

\* x was compared with y, the two are fuzzy duplicates, and by line 248 the
\* comparison removes x: as i when y is as new or newer, as j when y is
\* strictly newer
RemovedInComparisonWith(x, y) ==
    /\ FuzzyPair(listings[x], listings[y])
    /\ \/ /\ <<x, y>> \in fz.compared
          /\ listings[y].date_added >= listings[x].date_added
       \/ /\ <<y, x>> \in fz.compared
          /\ listings[y].date_added > listings[x].date_added

StrictlyNewest(ls, k) ==
    \A m \in 1..Len(ls) : m # k => ls[m].date_added < ls[k].date_added

\* C30: in the fuzzy stage every removed listing was removed in a
\* comparison with a listing at least as new, the output holds a listing at
\* least as new as each removed one, and a listing strictly newer than every
\* other listing of the input is never removed.
C30_NewestWins ==
    pc = "fuzzy_loop" =>
        /\ \A x \in fz.removed_indices :
              \E y \in 1..Len(listings) :
                  y # x /\ RemovedInComparisonWith(x, y)
        /\ \A k \in 1..Len(listings) :
              StrictlyNewest(listings, k) => k \notin fz.removed_indices
        /\ FuzzyLoopOver =>
              \A x \in fz.removed_indices :
                  \E k \in 1..Len(listings) :
                      /\ k \notin fz.removed_indices
                      /\ listings[k].date_added >= listings[x].date_added

\* three listings of rising date: the second removed the first and the
\* third, strictly the newest, removed the second
C30_Witness ==
    /\ FuzzyLoopOver
    /\ Len(listings) = 3
    /\ listings[1].date_added < listings[2].date_added
    /\ listings[2].date_added < listings[3].date_added
    /\ fz.removed_indices = {1, 2}
    /\ StrictlyNewest(listings, 3)

====
